---- MODULE Spec2Model ----
(***************************************************************************)
(* Model of the event-driven backtest engine of algo-trader                *)
(* (src/src/python/backtest/engine.py).                                    *)
(*                                                                         *)
(* Python floats are modelled as exact rationals <<n, d>> (d > 0, lowest   *)
(* terms); None for an Optional[float] is <<0, 0>>.  Timestamps are        *)
(* positive integers and None for a timestamp is NoTime.                   *)
(***************************************************************************)
EXTENDS Integers, Sequences, FiniteSets, TLC

VARIABLES
    config,        \* BacktestEngine.config (BacktestConfig)
    data,          \* BacktestEngine.data: NoData, or the sorted frame
    strategy,      \* BacktestEngine.strategy is bound
    timestamp,     \* BacktestState.timestamp
    cash,          \* BacktestState.cash
    positions,     \* BacktestState.positions: symbol -> Position
    orders,        \* BacktestState.orders: executed-order log
    trades,        \* BacktestState.trades
    equity_curve,  \* BacktestState.equity_curve
    pc,            \* position inside run()
    idx,           \* loop variable of run()
    bar,           \* the current bar of run()
    cur_order,     \* the loop variable order of run(): the Order last submitted
    ret,           \* return value of the last _execute_order call
    submitted,     \* number of orders submitted to _execute_order in this run
    frame,         \* the DataFrame passed to the last load_data call
    outcome,       \* what the last completed call of the API returned or raised
    runs,          \* number of run() calls that passed the checks
    script,        \* the bars read and the orders returned in the first run
    equity,        \* the Series passed to BacktestMetrics.from_equity_curve
    trade_frame,   \* its trades argument
    risk_free_rate,    \* its risk_free_rate argument
    periods_per_year,  \* its periods_per_year argument
    metrics,       \* the BacktestMetrics it returned
    active,        \* which of two BacktestEngine instances is stepping
    other,         \* the attributes of the instance that is not stepping
    interleaved,   \* the ledger the instance ended its interleaved run with
    broker,        \* PaperTrader.broker (MockBroker): slippage and price feed
    account,       \* PaperTrader.account (Account)
    book,          \* PaperTrader._orders: the Order objects, by order id
    pending_orders,    \* PaperTrader._pending_orders: the ids, in list order
    tasks,         \* coroutines suspended in MockBroker.execute_order's sleep
    notified,      \* per order id, the number of calls of the fill callback
    returned,      \* what the completed PaperTrader calls returned or raised
    sent,          \* per order id, the number of MockBroker.execute_order calls
    calls          \* number of PaperTrader calls made so far

vars == <<config, data, strategy, timestamp, cash, positions, orders, trades,
          equity_curve, pc, idx, bar, cur_order, ret, submitted, frame,
          outcome, runs, script, equity, trade_frame, risk_free_rate,
          periods_per_year, metrics, active, other,
          interleaved, broker, account, book, pending_orders, tasks,
          notified, returned, sent, calls>>

----------------------------------------------------------------------------
(* Bounds of the model *)

MaxBars == 2
MaxOrders == 4
MaxLimitBars == 1
MaxLimitOrders == 3
MaxLoadBars == 2
MaxLoadOrders == 1
MaxRerunBars == 2
MaxRerunOrders == 2
MaxRuns == 2
MaxPairBars == 2
MaxPairOrders == 1
MaxSymbolBars == 2
MaxSymbolOrders == 4
MaxMixedBars == 2
MaxMixedOrders == 2
MaxSizeBars == 2
MaxSizeOrders == 2
MaxPaperOrders == 3
MaxPaperCalls == 5
MaxTasks == 2
MaxSeqOrders == 2
MaxSeqCalls == 4
MaxSubmitOrders == 4
MaxSubmitCalls == 5
MaxCurveLen == 5
MaxTradeCurveLen == 2
MaxTrades == 4

(* Program constants *)

NoTime == 0
BUY == 1
SELL == -1

----------------------------------------------------------------------------
(* Exact rational arithmetic standing for Python float arithmetic *)

Abs(x) == IF x < 0 THEN -x ELSE x

RECURSIVE Gcd(_, _)
Gcd(a, b) == IF b = 0 THEN a ELSE Gcd(b, a % b)

Frac(n, d) ==
    LET g == Gcd(Abs(n), Abs(d))
        s == IF d < 0 THEN -1 ELSE 1
    IN  <<(s * n) \div g, (s * d) \div g>>

R(n) == <<n, 1>>
Zero == <<0, 1>>
None == <<0, 0>>

Add(x, y) == Frac(x[1] * y[2] + y[1] * x[2], x[2] * y[2])
Sub(x, y) == Frac(x[1] * y[2] - y[1] * x[2], x[2] * y[2])
Mul(x, y) == Frac(x[1] * y[1], x[2] * y[2])
Div(x, y) == Frac(x[1] * y[2], x[2] * y[1])
Less(x, y) == x[1] * y[2] < y[1] * x[2]
Leq(x, y) == x[1] * y[2] <= y[1] * x[2]

----------------------------------------------------------------------------
(* Data types *)

Symbols == {"A", "B"}

Position(symbol) ==
    [symbol |-> symbol, quantity |-> 0, avg_price |-> Zero,
     unrealized_pnl |-> Zero, realized_pnl |-> Zero, entry_time |-> NoTime]

Order(symbol, side, quantity, order_type, limit_price) ==
    [symbol |-> symbol, side |-> side, quantity |-> quantity,
     order_type |-> order_type, limit_price |-> limit_price,
     timestamp |-> NoTime, filled |-> FALSE, fill_price |-> None,
     fill_timestamp |-> NoTime]

----------------------------------------------------------------------------
(* BacktestEngine.get_position: the Position of a symbol, created lazily *)

get_position(pos, symbol) ==
    IF symbol \in DOMAIN pos THEN pos
    ELSE [s \in DOMAIN pos \cup {symbol} |->
            IF s = symbol THEN Position(symbol) ELSE pos[s]]

RECURSIVE SumOver(_, _)
SumOver(f, S) ==
    IF S = {} THEN Zero
    ELSE LET s == CHOOSE x \in S : TRUE
         IN  Add(f[s], SumOver(f, S \ {s}))

(* BacktestEngine.get_equity *)
get_equity(c, pos) ==
    Add(c, SumOver([s \in DOMAIN pos |->
                      Add(Mul(R(pos[s].quantity), pos[s].avg_price),
                          pos[s].unrealized_pnl)],
                   DOMAIN pos))

(* Mutant: unrealized P&L is never marked *)
MarkPositionNever(p, b) == p

(* BacktestEngine._update_positions *)
MarkPosition(p, b) ==
    IF p.quantity # 0
    THEN [p EXCEPT !.unrealized_pnl =
              Mul(R(p.quantity), Sub(b.close, p.avg_price))]
    ELSE p

update_positions(pos, b) == [s \in DOMAIN pos |-> MarkPosition(pos[s], b)]

----------------------------------------------------------------------------
(* BacktestEngine._execute_order, in the order of the code *)

BasePrice(order, b) ==
    IF order.order_type = "MARKET" THEN b.close ELSE order.limit_price

(* Mutant: a limit price on the edge of the bar's range counts as untouched *)
LimitUntouchedAtEdge(order, b) ==
    /\ order.order_type # "MARKET"
    /\ \/ order.side = BUY /\ Leq(order.limit_price, b.low)
       \/ order.side = SELL /\ Leq(b.high, order.limit_price)

LimitUntouched(order, b) ==
    /\ order.order_type # "MARKET"
    /\ \/ order.side = BUY /\ Less(order.limit_price, b.low)
       \/ order.side = SELL /\ Less(b.high, order.limit_price)

SlippageFactor(order, cfg) ==
    IF order.side = BUY THEN Add(R(1), cfg.slippage) ELSE Sub(R(1), cfg.slippage)

FillPrice(order, b, cfg) == Mul(BasePrice(order, b), SlippageFactor(order, cfg))

TransactionValue(order, b, cfg) == Mul(R(order.quantity), FillPrice(order, b, cfg))

Commission(order, b, cfg) == Mul(TransactionValue(order, b, cfg), cfg.commission)

Required(order, b, cfg) ==
    Add(TransactionValue(order, b, cfg), Commission(order, b, cfg))

(* Mutant: the commission of a sell is added to the proceeds *)
ProceedsPlusCommission(order, b, cfg) ==
    Add(TransactionValue(order, b, cfg), Commission(order, b, cfg))

Proceeds(order, b, cfg) ==
    Sub(TransactionValue(order, b, cfg), Commission(order, b, cfg))

(* Mutant: the cash check forgets the commission *)
InsufficientCashNoCommission(order, b, cfg, c) ==
    Less(c, TransactionValue(order, b, cfg))

(* Mutant: the cash check reads the cash the run started with *)
InsufficientCashAtStart(order, b, cfg, c) ==
    Less(cfg.initial_capital, Required(order, b, cfg))

InsufficientCash(order, b, cfg, c) == Less(c, Required(order, b, cfg))

(* Mutant: the short check only looks for an existing holding *)
CannotShortOnlyIfFlat(order, cfg, p) ==
    ~cfg.allow_shorting /\ p.quantity <= 0

CannotShort(order, cfg, p) ==
    ~cfg.allow_shorting /\ p.quantity < order.quantity

BuyUpdate(p, order, fill_price, ts) ==
    LET old_qty == p.quantity
        old_avg == p.avg_price
        new_qty == old_qty + order.quantity
    IN  [p EXCEPT
           !.avg_price =
               IF new_qty # 0
               THEN Div(Add(Mul(R(old_qty), old_avg),
                            Mul(R(order.quantity), fill_price)), R(new_qty))
               ELSE old_avg,
           !.entry_time = IF old_qty = 0 THEN ts ELSE p.entry_time,
           !.quantity = new_qty]

Min(a, b) == IF a < b THEN a ELSE b

SellClosesLong(p) == p.quantity > 0

(* Mutant: the closed quantity is the whole order quantity *)
SellQtyWholeOrder(p, order) == order.quantity

SellQty(p, order) == Min(order.quantity, p.quantity)

TradePnl(p, order, fill_price) ==
    Mul(R(SellQty(p, order)), Sub(fill_price, p.avg_price))

(* Mutant: the Trade records the P&L of one share *)
MakeTradePerShare(p, order, fill_price, ts) ==
    [symbol |-> order.symbol,
     entry_time |-> IF p.entry_time # NoTime THEN p.entry_time ELSE ts,
     exit_time |-> ts,
     side |-> BUY,
     quantity |-> SellQty(p, order),
     entry_price |-> p.avg_price,
     exit_price |-> fill_price,
     pnl |-> Sub(fill_price, p.avg_price),
     return_pct |-> IF Less(Zero, p.avg_price)
                    THEN Div(TradePnl(p, order, fill_price),
                             Mul(R(SellQty(p, order)), p.avg_price))
                    ELSE Zero]

MakeTrade(p, order, fill_price, ts) ==
    [symbol |-> order.symbol,
     entry_time |-> IF p.entry_time # NoTime THEN p.entry_time ELSE ts,
     exit_time |-> ts,
     side |-> BUY,
     quantity |-> SellQty(p, order),
     entry_price |-> p.avg_price,
     exit_price |-> fill_price,
     pnl |-> TradePnl(p, order, fill_price),
     return_pct |-> IF Less(Zero, p.avg_price)
                    THEN Div(TradePnl(p, order, fill_price),
                             Mul(R(SellQty(p, order)), p.avg_price))
                    ELSE Zero]

SellUpdate(p, order, fill_price) ==
    LET old_qty == p.quantity
        new_qty == old_qty - order.quantity
        realized == IF SellClosesLong(p)
                    THEN Add(p.realized_pnl, TradePnl(p, order, fill_price))
                    ELSE p.realized_pnl
    IN  [p EXCEPT
           !.realized_pnl = realized,
           !.quantity = new_qty,
           !.avg_price = IF new_qty = 0 THEN Zero ELSE p.avg_price,
           !.entry_time = IF new_qty = 0 THEN NoTime ELSE p.entry_time]

(* Mutant: the fill timestamp is not recorded *)
FillOrderNoTimestamp(order, fill_price, ts) ==
    [order EXCEPT !.filled = TRUE, !.fill_price = fill_price]

FillOrder(order, fill_price, ts) ==
    [order EXCEPT !.filled = TRUE, !.fill_price = fill_price,
                  !.fill_timestamp = ts]

(* Mutant: a rejected buy returns after cash was debited *)
RejectedAfterDebit(order, b, cfg, c, pos, trs) ==
    [ret |-> FALSE, order |-> order,
     cash |-> IF order.side = BUY THEN Sub(c, Required(order, b, cfg)) ELSE c,
     positions |-> pos, trades |-> trs]

(* "return False": nothing was assigned before it *)
Rejected(order, b, cfg, c, pos, trs) ==
    [ret |-> FALSE, order |-> order, cash |-> c, positions |-> pos,
     trades |-> trs]

(* The whole call: the return value, the order object and the ledger after it *)
execute_order(order, b, cfg, c, pos, trs) ==
    LET symbol == order.symbol
        fill_price == FillPrice(order, b, cfg)
        rejected(pos1) == Rejected(order, b, cfg, c, pos1, trs)
    IN  IF LimitUntouched(order, b) THEN rejected(pos)
        ELSE IF order.side = BUY
        THEN IF InsufficientCash(order, b, cfg, c) THEN rejected(pos)
             ELSE LET pos1 == get_position(pos, symbol)
                  IN  [ret |-> TRUE,
                       order |-> FillOrder(order, fill_price, b.timestamp),
                       cash |-> Sub(c, Required(order, b, cfg)),
                       positions |-> [pos1 EXCEPT ![symbol] =
                           BuyUpdate(pos1[symbol], order, fill_price, b.timestamp)],
                       trades |-> trs]
        ELSE LET pos1 == get_position(pos, symbol)
                 p == pos1[symbol]
             IN  IF CannotShort(order, cfg, p) THEN rejected(pos1)
                 ELSE [ret |-> TRUE,
                       order |-> FillOrder(order, fill_price, b.timestamp),
                       cash |-> Add(c, Proceeds(order, b, cfg)),
                       positions |-> [pos1 EXCEPT ![symbol] =
                           SellUpdate(p, order, fill_price)],
                       trades |-> IF SellClosesLong(p)
                                  THEN Append(trs, MakeTrade(p, order, fill_price,
                                                             b.timestamp))
                                  ELSE trs]

----------------------------------------------------------------------------
(* Inputs: configurations, frames, bars and the orders a strategy may return *)

Rates == {<<Zero, Zero>>, <<Frac(1, 4), Frac(1, 2)>>}

Configs ==
    {[initial_capital |-> R(10), commission |-> r[1], slippage |-> r[2],
      allow_shorting |-> sh] : r \in Rates, sh \in BOOLEAN}

(* The columns load_data expects, and the ones it checks *)
Columns == <<"timestamp", "open", "high", "low", "close", "volume", "symbol">>

required == <<"timestamp", "open", "high", "low", "close", "volume">>

(* c in data.columns *)
In(c, columns) == \E j \in 1..Len(columns) : columns[j] = c

(* missing = [c for c in required if c not in data.columns], as indices *)
missing(columns) == {i \in 1..Len(required) : ~In(required[i], columns)}

(* A DataFrame: its columns and the timestamps of its rows, in row order;    *)
(* the other cells of a row are read when run() reaches the row              *)
Frame(columns, timestamps) == [columns |-> columns, timestamps |-> timestamps]

NoFrame == Frame(<<>>, <<>>)

(* BacktestEngine.data: None, or the frame load_data stored *)
NoData == [loaded |-> FALSE]

Data(columns, timestamps) ==
    [loaded |-> TRUE, columns |-> columns, timestamps |-> timestamps]

(* Mutant: the rows are kept in the order they were given *)
unsorted_values(timestamps) == timestamps

(* data.sort_values('timestamp').reset_index(drop=True) *)
RECURSIVE Insert(_, _)
Insert(x, sorted) ==
    IF sorted = <<>> \/ x <= Head(sorted) THEN <<x>> \o sorted
    ELSE <<Head(sorted)>> \o Insert(x, Tail(sorted))

RECURSIVE sort_values(_)
sort_values(timestamps) ==
    IF timestamps = <<>> THEN <<>>
    ELSE Insert(Head(timestamps), sort_values(Tail(timestamps)))

(* The sequences of length n over the set S *)
RECURSIVE SeqsOfLen(_, _)
SeqsOfLen(S, n) ==
    IF n = 0 THEN {<<>>}
    ELSE {Append(q, x) : q \in SeqsOfLen(S, n - 1), x \in S}

SeqsUpTo(S, maxLen) == UNION {SeqsOfLen(S, n) : n \in 0..maxLen}

(* <<1, ..., n>> *)
RECURSIVE UpTo(_)
UpTo(n) == IF n = 0 THEN <<>> ELSE Append(UpTo(n - 1), n)

(* Frames with every column, one row per timestamp 1..n, as <<columns, timestamps>> *)
SortedFrames(maxBars) == {<<Columns, UpTo(n)>> : n \in 1..maxBars}

(* The column lists of the frames passed to load_data *)
ColumnLists ==
    <<Columns,
      <<"timestamp", "open", "high", "low", "close", "volume">>,
      <<"timestamp", "open", "high", "low", "volume", "symbol">>,
      <<"open", "high", "low", "close", "symbol">>>>

(* Frames of up to maxBars rows in any order, with repeated timestamps, with *)
(* or without the expected columns                                           *)
AnyFrames(maxBars) ==
    {<<ColumnLists[c], ts>> : c \in 1..Len(ColumnLists),
                              ts \in SeqsUpTo(1..maxBars, maxBars)}

FramesOf(kind, maxBars) ==
    IF kind = "sorted" THEN SortedFrames(maxBars) ELSE AnyFrames(maxBars)

Closes == {2, 10}

Bar(ts, low, high, close) ==
    [timestamp |-> ts, low |-> R(low), high |-> R(high), close |-> R(close)]

(* The rows a frame may hold at timestamp ts *)
Bars(ts) == {Bar(ts, c - 1, c + 1, c) : c \in Closes}

NoBar == Bar(NoTime, 0, 0, 0)

(* The rows a frame of several symbols may hold at timestamp ts: the row's *)
(* 'symbol' cell names the symbol the prices belong to                     *)
SymbolBars(ts) ==
    {[timestamp |-> b.timestamp, low |-> b.low, high |-> b.high,
      close |-> b.close, symbol |-> s] : b \in Bars(ts), s \in Symbols}

Quantities == {1, 2}

(* The orders a strategy may create, as the arguments of Order(...) *)
MarketOrders(syms) ==
    {<<s, sd, q, "MARKET", None>> : s \in syms, sd \in {SELL, BUY},
                                   q \in Quantities}

LimitPrices == {1, 2, 3, 10}

LimitOrders(syms) ==
    {<<s, sd, 1, "LIMIT", R(c)>> : s \in syms, sd \in {SELL, BUY},
                                  c \in LimitPrices}

(* Sizes a strategy may compute: int(max_position_value / price) is 0 when *)
(* one share costs more than the allowed value, and Order takes any number *)
Sizes == {-1, 0, 1}

(* Market orders of any size. A sell of size 0 is left out: on a long it   *)
(* divides by sell_qty * old_avg = 0 and run() ends with ZeroDivisionError *)
SizedOrders(syms) ==
    {<<s, sd, q, "MARKET", None>> : s \in syms, sd \in {SELL, BUY},
                                   q \in Sizes} \ {<<s, SELL, 0, "MARKET", None>> : s \in syms}

(* The orders of the given order types, types being a sequence of them *)
OrdersOf(types, syms) ==
    UNION {IF types[i] = "MARKET" THEN MarketOrders(syms)
           ELSE IF types[i] = "LIMIT" THEN LimitOrders(syms)
           ELSE SizedOrders(syms) : i \in 1..Len(types)}

NoOrder == Order("", BUY, 0, "MARKET", None)

OrderArgs(o) == <<o.symbol, o.side, o.quantity, o.order_type, o.limit_price>>

----------------------------------------------------------------------------
(* Floats of the metrics (numpy float64).  A finite float is the rational    *)
(* <<n, d>>; a division by zero gives Inf, NegInf or NaN as numpy does, with *)
(* a warning and no exception.  Results of roots and powers are kept exact   *)
(* as terms: a term is a longer tuple of integers that starts with the code  *)
(* of its operation, followed by its operands.                               *)

NaN == <<0, 0>>
Inf == <<1, 0>>
NegInf == <<-1, 0>>

Sgn(n) == IF n < 0 THEN -1 ELSE IF n > 0 THEN 1 ELSE 0

IsInf(x) == x[2] = 0 /\ x[1] # 0

(* Sum, product and quotient of finite floats, with the common factors *)
(* taken out before multiplying                                        *)
RAdd(x, y) ==
    LET g == Gcd(x[2], y[2])
    IN  Frac(x[1] * (y[2] \div g) + y[1] * (x[2] \div g), (x[2] \div g) * y[2])

RMul(x, y) ==
    LET g1 == Gcd(Abs(x[1]), y[2])
        g2 == Gcd(Abs(y[1]), x[2])
    IN  Frac((x[1] \div g1) * (y[1] \div g2), (x[2] \div g2) * (y[2] \div g1))

RDiv(x, y) == RMul(x, <<Sgn(y[1]) * y[2], Abs(y[1])>>)

FNeg(x) == <<-x[1], x[2]>>

FAbs(x) == <<Abs(x[1]), x[2]>>

FAdd(x, y) ==
    IF x = NaN \/ y = NaN THEN NaN
    ELSE IF IsInf(x) /\ IsInf(y) THEN (IF x = y THEN x ELSE NaN)
    ELSE IF IsInf(x) THEN x
    ELSE IF IsInf(y) THEN y
    ELSE RAdd(x, y)

FSub(x, y) == FAdd(x, FNeg(y))

FMul(x, y) ==
    IF x = NaN \/ y = NaN THEN NaN
    ELSE IF IsInf(x) \/ IsInf(y)
         THEN (IF x[1] = 0 \/ y[1] = 0 THEN NaN ELSE <<Sgn(x[1]) * Sgn(y[1]), 0>>)
    ELSE RMul(x, y)

FDiv(x, y) ==
    IF x = NaN \/ y = NaN THEN NaN
    ELSE IF IsInf(y) THEN (IF IsInf(x) THEN NaN ELSE Zero)
    ELSE IF IsInf(x) THEN <<x[1] * (IF y[1] < 0 THEN -1 ELSE 1), 0>>
    ELSE IF y[1] = 0 THEN <<Sgn(x[1]), 0>>
    ELSE RDiv(x, y)

(* x < y; every comparison with NaN is False *)
FLess(x, y) ==
    IF x = NaN \/ y = NaN \/ x = y THEN FALSE
    ELSE IF x = NegInf \/ y = Inf THEN TRUE
    ELSE IF x = Inf \/ y = NegInf THEN FALSE
    ELSE Less(x, y)

(* A float that is a number: not NaN and not an infinity *)
IsNumber(x) == Len(x) # 2 \/ x[2] # 0

(* np.sqrt: the term <<1, n, d>> is sqrt(n / d) *)
Sqrt(x) ==
    IF x = NaN \/ FLess(x, Zero) THEN NaN
    ELSE IF x = Inf \/ x = Zero THEN x
    ELSE <<1, x[1], x[2]>>

(* The product of two results of Sqrt or np_std: a float where one of them *)
(* is a float, else the term <<3>> \o a \o b                               *)
RootMul(a, b) ==
    IF Len(a) = 2 /\ Len(b) = 2 THEN FMul(a, b)
    ELSE IF Len(a) = 2 THEN (IF a = Zero \/ a = NaN THEN a ELSE Inf)
    ELSE IF Len(b) = 2 THEN (IF b = Zero \/ b = NaN THEN b ELSE Inf)
    ELSE <<3>> \o a \o b

(* Mutant: the ratio is computed whatever its denominator *)
Unguarded(x) == TRUE

(* x > 0 for a float, a root, a standard deviation or a product of two *)
Positive(x) == IF Len(x) = 2 THEN FLess(Zero, x) ELSE TRUE

(* base ** exponent - 1 for a float base and a positive finite exponent: a  *)
(* float where the power is one, else the term <<4, base n, base d,         *)
(* exponent n, exponent d>>.  A negative base has a NaN power unless the    *)
(* exponent is a whole number.                                              *)
PowMinusOne(base, exponent) ==
    IF base = NaN THEN NaN
    ELSE IF base = Inf THEN Inf
    ELSE IF base = NegInf
         THEN (IF exponent[2] # 1 THEN NaN
               ELSE IF exponent[1] % 2 = 0 THEN Inf ELSE NegInf)
    ELSE IF base = Zero THEN R(-1)
    ELSE IF base = R(1) THEN Zero
    ELSE IF base[1] < 0 /\ exponent[2] # 1 THEN NaN
    ELSE <<4, base[1], base[2], exponent[1], exponent[2]>>

(* x / y where x or y may be a term: a float where the quotient is one, else *)
(* the term <<5>> \o x \o y                                                  *)
TermDiv(x, y) ==
    IF Len(x) = 2 /\ Len(y) = 2 THEN FDiv(x, y)
    ELSE IF Len(x) = 2 /\ (x = Zero \/ ~IsNumber(x)) THEN x
    ELSE IF Len(y) = 2 /\ ~IsNumber(y) THEN FDiv(R(1), y)
    ELSE <<5>> \o x \o y

(* Arrays are sequences *)
RECURSIVE np_sum(_)
np_sum(a) == IF Len(a) = 0 THEN Zero ELSE FAdd(a[1], np_sum(Tail(a)))

np_mean(a) == FDiv(np_sum(a), R(Len(a)))

RECURSIVE Flatten(_)
Flatten(a) == IF Len(a) = 0 THEN <<>> ELSE a[1] \o Flatten(Tail(a))

(* np.std, the population standard deviation: NaN for an empty array and   *)
(* for one with an infinity or NaN, 0 when all elements are equal, else    *)
(* the term <<2>> \o the elements                                           *)
np_std(a) ==
    IF Len(a) = 0 \/ \E i \in 1..Len(a) : ~IsNumber(a[i]) THEN NaN
    ELSE IF \A i \in 1..Len(a) : a[i] = a[1] THEN Zero
    ELSE <<2>> \o Flatten(a)

(* np.maximum and np.minimum of two floats: NaN if either is NaN *)
maximum(x, y) == IF x = NaN \/ y = NaN THEN NaN ELSE IF FLess(x, y) THEN y ELSE x
minimum(x, y) == IF x = NaN \/ y = NaN THEN NaN ELSE IF FLess(y, x) THEN y ELSE x

RECURSIVE np_max(_)
np_max(a) == IF Len(a) = 1 THEN a[1] ELSE maximum(a[1], np_max(Tail(a)))

RECURSIVE np_min(_)
np_min(a) == IF Len(a) = 1 THEN a[1] ELSE minimum(a[1], np_min(Tail(a)))

(* a[a > 0] and a[a < 0] *)
RECURSIVE positive_of(_)
positive_of(a) ==
    IF Len(a) = 0 THEN <<>>
    ELSE (IF FLess(Zero, a[1]) THEN <<a[1]>> ELSE <<>>) \o positive_of(Tail(a))

RECURSIVE negative_of(_)
negative_of(a) ==
    IF Len(a) = 0 THEN <<>>
    ELSE (IF FLess(a[1], Zero) THEN <<a[1]>> ELSE <<>>) \o negative_of(Tail(a))

(* np.diff(eq) / eq[:-1] *)
returns_of(eq) ==
    [i \in 1..(Len(eq) - 1) |-> FDiv(FSub(eq[i + 1], eq[i]), eq[i])]

----------------------------------------------------------------------------
(* BacktestMetrics (metrics.py) *)

Max(a, b) == IF a < b THEN b ELSE a

RECURSIVE MaxOf(_)
MaxOf(s) == IF Len(s) = 1 THEN s[1] ELSE Max(s[1], MaxOf(Tail(s)))

(* np.maximum.accumulate *)
peak(eq) == [i \in 1..Len(eq) |-> np_max(SubSeq(eq, 1, i))]

drawdown(eq) ==
    [i \in 1..Len(eq) |-> FDiv(FSub(peak(eq)[i], eq[i]), peak(eq)[i])]

in_drawdown(eq) == [i \in 1..Len(eq) |-> FLess(Zero, drawdown(eq)[i])]

any(flags) == \E i \in 1..Len(flags) : flags[i]

(* np.concatenate(([a[0]], a[:-1] != a[1:], [True])) *)
RunBoundaries(a) ==
    <<a[1]>> \o [i \in 1..(Len(a) - 1) |-> a[i] # a[i + 1]] \o <<TRUE>>

(* np.where(flags)[0]: the 0-based indices of the true flags *)
where(flags) ==
    LET positions0 == [i \in 1..Len(flags) |-> i - 1]
    IN  SelectSeq(positions0, LAMBDA i : flags[i + 1])

(* np.diff *)
diff(s) == [i \in 1..(Len(s) - 1) |-> s[i + 1] - s[i]]

(* s[start::2], start 0-based *)
EverySecond(s, start) ==
    [k \in 1..((Len(s) - start + 1) \div 2) |-> s[start + 2 * k - 1]]

drawdown_duration(eq) ==
    LET flags == in_drawdown(eq)
        run_lengths == diff(where(RunBoundaries(flags)))
        dd_runs == IF flags[1] THEN EverySecond(run_lengths, 0)
                   ELSE EverySecond(run_lengths, 1)
    IN  IF any(flags)
        THEN IF Len(dd_runs) > 0 THEN MaxOf(dd_runs) ELSE 0
        ELSE 0

(* _max_consecutive: the loop over arr, from the counts so far *)
RECURSIVE max_consecutive_from(_, _, _)
max_consecutive_from(arr, max_count, current_count) ==
    IF Len(arr) = 0 THEN max_count
    ELSE IF arr[1]
         THEN max_consecutive_from(Tail(arr), Max(max_count, current_count + 1),
                                   current_count + 1)
         ELSE max_consecutive_from(Tail(arr), max_count, 0)

max_consecutive(arr) == max_consecutive_from(arr, 0, 0)

(* The trades argument: None, or the pnl column of the DataFrame *)
NoTrades == [given |-> FALSE]

Trades(pnl) == [given |-> TRUE, pnl |-> pnl]

(* cls(): the BacktestMetrics of the dataclass defaults *)
DefaultMetrics ==
    [kind |-> "metrics",
     total_return |-> Zero, annualized_return |-> Zero, cagr |-> Zero,
     volatility |-> Zero, downside_deviation |-> Zero, max_drawdown |-> Zero,
     avg_drawdown |-> Zero, drawdown_duration |-> 0,
     sharpe_ratio |-> Zero, sortino_ratio |-> Zero, calmar_ratio |-> Zero,
     num_trades |-> 0, win_rate |-> Zero, profit_factor |-> Zero,
     avg_trade |-> Zero, avg_win |-> Zero, avg_loss |-> Zero,
     largest_win |-> Zero, largest_loss |-> Zero,
     max_consecutive_wins |-> 0, max_consecutive_losses |-> 0,
     exposure_time |-> Zero]

(* from_equity_curve, lines 71-118: the fields computed from the curve *)
CurveMetrics(m, eq, rf, ppy) ==
    LET returns == returns_of(eq)
        total_return == FSub(FDiv(eq[Len(eq)], eq[1]), R(1))
        n_periods == Len(returns)
        cagr == PowMinusOne(FDiv(eq[Len(eq)], eq[1]),
                            Frac(ppy, n_periods))
        volatility == RootMul(np_std(returns), Sqrt(R(ppy)))
        negative_returns == negative_of(returns)
        downside_deviation ==
            IF Len(negative_returns) > 0
            THEN RootMul(np_std(negative_returns), Sqrt(R(ppy)))
            ELSE m.downside_deviation
        dd == drawdown(eq)
        max_drawdown == np_max(dd)
        rf_per_period == FDiv(rf, R(ppy))
        excess_returns == [i \in 1..Len(returns) |-> FSub(returns[i], rf_per_period)]
        annual_excess == FMul(np_mean(excess_returns), R(ppy))
    IN  [m EXCEPT
           !.total_return = total_return,
           !.cagr = cagr,
           !.annualized_return = cagr,
           !.volatility = volatility,
           !.downside_deviation = downside_deviation,
           !.max_drawdown = max_drawdown,
           !.avg_drawdown = IF any(in_drawdown(eq))
                            THEN np_mean(positive_of(dd)) ELSE Zero,
           !.drawdown_duration = drawdown_duration(eq),
           !.sharpe_ratio = IF Positive(volatility)
                            THEN TermDiv(annual_excess, volatility) ELSE @,
           !.sortino_ratio = IF Positive(downside_deviation)
                             THEN TermDiv(annual_excess, downside_deviation) ELSE @,
           !.calmar_ratio = IF Positive(max_drawdown)
                            THEN TermDiv(cagr, max_drawdown) ELSE @]

(* total_wins / total_losses if total_losses > 0 else float('inf') *)
profit_factor(total_wins, total_losses) ==
    IF FLess(Zero, total_losses) THEN FDiv(total_wins, total_losses) ELSE Inf

(* ~is_win *)
is_loss(pnl) == [i \in 1..Len(pnl) |-> ~FLess(Zero, pnl[i])]

(* from_equity_curve, lines 121-142: the fields computed from the trades *)
TradeMetrics(m, pnl) ==
    LET wins == positive_of(pnl)
        losses == negative_of(pnl)
        total_wins == IF Len(wins) > 0 THEN np_sum(wins) ELSE Zero
        total_losses == IF Len(losses) > 0 THEN FAbs(np_sum(losses)) ELSE Zero
        is_win == [i \in 1..Len(pnl) |-> FLess(Zero, pnl[i])]
    IN  [m EXCEPT
           !.num_trades = Len(pnl),
           !.win_rate = IF Len(pnl) > 0 THEN Frac(Len(wins), Len(pnl)) ELSE Zero,
           !.avg_trade = np_mean(pnl),
           !.avg_win = IF Len(wins) > 0 THEN np_mean(wins) ELSE Zero,
           !.avg_loss = IF Len(losses) > 0 THEN np_mean(losses) ELSE Zero,
           !.largest_win = IF Len(wins) > 0 THEN np_max(wins) ELSE Zero,
           !.largest_loss = IF Len(losses) > 0 THEN np_min(losses) ELSE Zero,
           !.profit_factor = profit_factor(total_wins, total_losses),
           !.max_consecutive_wins = max_consecutive(is_win),
           !.max_consecutive_losses = max_consecutive(is_loss(pnl))]

(* len(equity) < 2 *)
TooShort(eq) == Len(eq) < 2

(* equity.values: the Series as an array of floats *)
values(equity_series) == [i \in 1..Len(equity_series) |-> R(equity_series[i])]

(* BacktestMetrics.from_equity_curve *)
from_equity_curve(equity_series, tf, rf, ppy) ==
    IF TooShort(equity_series)
    THEN DefaultMetrics
    ELSE LET m == CurveMetrics(DefaultMetrics, values(equity_series),
                               rf, ppy)
         IN  IF tf.given /\ Len(tf.pnl) > 0
             THEN TradeMetrics(m, tf.pnl)
             ELSE m

----------------------------------------------------------------------------
(* BacktestEngine._calculate_metrics (engine.py) *)

(* The {} returned for a curve of fewer than two points *)
EmptyDict == [kind |-> "dict", keys |-> 0]

(* Lines 342-353: the trade statistics of the dict *)
TradeStatistics(pnl) ==
    LET num_trades == Len(pnl)
        winning_trades == positive_of(pnl)
        losing_trades == negative_of(pnl)
    IN  IF num_trades > 0
        THEN [num_trades |-> num_trades,
              win_rate |-> Frac(Len(winning_trades), num_trades),
              avg_win |-> IF Len(winning_trades) > 0
                          THEN np_mean(winning_trades) ELSE Zero,
              avg_loss |-> IF Len(losing_trades) > 0
                           THEN np_mean(losing_trades) ELSE Zero,
              profit_factor |-> IF np_sum(losing_trades) # Zero
                                THEN FAbs(FDiv(np_sum(winning_trades),
                                               np_sum(losing_trades)))
                                ELSE Inf]
        ELSE [num_trades |-> 0, win_rate |-> Zero, avg_win |-> Zero,
              avg_loss |-> Zero, profit_factor |-> Zero]

(* Mutant: only an empty curve has too few points *)
TooFewPointsIfEmpty(curve) == Len(curve) < 1

(* len(equity_df) < 2 *)
TooFewPoints(curve) == Len(curve) < 2

calculate_metrics(curve, trs, cfg) ==
    IF TooFewPoints(curve)
    THEN EmptyDict
    ELSE LET eq == [i \in 1..Len(curve) |-> curve[i].equity]
             returns == returns_of(eq)
             total_return == FSub(FDiv(eq[Len(eq)], eq[1]), R(1))
             n_periods == Len(returns)
             annualized_return ==
                 IF n_periods > 0
                 THEN PowMinusOne(FAdd(R(1), total_return), Frac(252, n_periods))
                 ELSE Zero
             volatility == IF Len(returns) > 0
                           THEN RootMul(np_std(returns), Sqrt(R(252)))
                           ELSE Zero
             stats == TradeStatistics([i \in 1..Len(trs) |-> trs[i].pnl])
         IN  [kind |-> "dict", keys |-> 12,
              total_return |-> total_return,
              annualized_return |-> annualized_return,
              volatility |-> volatility,
              sharpe_ratio |-> IF Positive(volatility)
                               THEN TermDiv(annualized_return, volatility)
                               ELSE Zero,
              max_drawdown |-> np_max(drawdown(eq)),
              num_trades |-> stats.num_trades,
              win_rate |-> stats.win_rate,
              avg_win |-> stats.avg_win,
              avg_loss |-> stats.avg_loss,
              profit_factor |-> stats.profit_factor,
              final_equity |-> eq[Len(eq)],
              initial_capital |-> cfg.initial_capital]

----------------------------------------------------------------------------
(* What a call of the API returned or raised *)
NoOutcome == [kind |-> "none"]
ReturnedNone == [kind |-> "returned"]
ValueError == [kind |-> "ValueError"]

(* The dict run() returns *)
run_result(curve, trs, cfg) ==
    [kind |-> "result",
     equity_curve |-> curve,
     trades |-> trs,
     metrics |-> calculate_metrics(curve, trs, cfg),
     final_equity |-> IF Len(curve) > 0 THEN curve[Len(curve)].equity
                      ELSE cfg.initial_capital]

(* Mutant: _reset keeps the positions of the previous run *)
reset_keeping_positions(cfg) ==
    [timestamp |-> NoTime, cash |-> cfg.initial_capital, positions |-> positions,
     orders |-> <<>>, trades |-> <<>>, equity_curve |-> <<>>]

(* BacktestEngine._reset: the fresh BacktestState *)
reset(cfg) ==
    [timestamp |-> NoTime, cash |-> cfg.initial_capital, positions |-> <<>>,
     orders |-> <<>>, trades |-> <<>>, equity_curve |-> <<>>]

NoMetrics == [kind |-> "none"]

NoInstance == [kind |-> "none"]

NoLedger == [kind |-> "none"]

----------------------------------------------------------------------------
(* The paper trader (src/src/python/execution/paper_trader.py).  Prices and *)
(* cash are exact rationals, quantities integers; the datetime fields of an *)
(* Order are left out.  An order id is the order's index in the order book. *)

(* MockBroker(slippage=0.0005) and PaperTrader(initial_capital=100000) *)
DefaultSlippage == Frac(1, 2000)
DefaultCapital == R(100000)

(* Order of the paper trader, as submit_order creates it *)
PaperOrder(id, symbol, side, quantity, order_type, limit_price, stop_price) ==
    [id |-> id, symbol |-> symbol, side |-> side, quantity |-> quantity,
     order_type |-> order_type, limit_price |-> limit_price,
     stop_price |-> stop_price, status |-> "SUBMITTED",
     filled_quantity |-> 0, filled_price |-> None]

(* Position(symbol=symbol, quantity=0, avg_cost=0) *)
PaperPosition(symbol) ==
    [symbol |-> symbol, quantity |-> 0, avg_cost |-> Zero,
     current_price |-> Zero, unrealized_pnl |-> Zero, realized_pnl |-> Zero]

(* Account(cash, initial_capital, buying_power) *)
Account(capital) ==
    [cash |-> capital, initial_capital |-> capital, buying_power |-> capital,
     positions |-> <<>>]

(* MockBroker.__init__: no price is known *)
MockBroker(slippage) ==
    [slippage |-> slippage, price_feed |-> [s \in Symbols |-> None]]

(* MockBroker.get_price: None for a symbol without a price *)
get_price(b, symbol) == b.price_feed[symbol]

(* MockBroker.set_price *)
set_price(b, symbol, price) ==
    [b EXCEPT !.price_feed = [@ EXCEPT ![symbol] = price]]

(* Mutant: a price equal to the limit or the stop does not trigger either *)
NotTriggeredAtLimit(order, price) ==
    \/ /\ order.order_type = "LIMIT"
       /\ \/ order.side = "BUY" /\ Leq(order.limit_price, price)
          \/ order.side = "SELL" /\ Leq(price, order.limit_price)
    \/ /\ order.order_type = "STOP"
       /\ \/ order.side = "BUY" /\ Leq(price, order.stop_price)
          \/ order.side = "SELL" /\ Leq(order.stop_price, price)

(* The limit or stop condition of the order is not met at the price *)
NotTriggered(order, price) ==
    \/ /\ order.order_type = "LIMIT"
       /\ \/ order.side = "BUY" /\ Less(order.limit_price, price)
          \/ order.side = "SELL" /\ Less(price, order.limit_price)
    \/ /\ order.order_type = "STOP"
       /\ \/ order.side = "BUY" /\ Less(price, order.stop_price)
          \/ order.side = "SELL" /\ Less(order.stop_price, price)

(* MockBroker.execute_order does not look at the status of the order *)
SkipsOrder(order) == FALSE

(* MockBroker.execute_order after the sleep: the order it returns *)
broker_execute(b, order) ==
    LET price == get_price(b, order.symbol)
        base == IF order.order_type = "LIMIT" THEN order.limit_price ELSE price
        fill_price == IF order.side = "BUY"
                      THEN Mul(base, Add(R(1), b.slippage))
                      ELSE Mul(base, Sub(R(1), b.slippage))
    IN  IF SkipsOrder(order) THEN order
        ELSE IF price = None THEN [order EXCEPT !.status = "REJECTED"]
        ELSE IF NotTriggered(order, price) THEN order
        ELSE [order EXCEPT !.status = "FILLED",
                           !.filled_quantity = order.quantity,
                           !.filled_price = fill_price]

(* Mutant: the cash check reads the price with no buffer and no quantity *)
RequiredCashOneShare(order, b) ==
    IF get_price(b, order.symbol) = None THEN Zero
    ELSE get_price(b, order.symbol)

(* required_cash = order.quantity * price * 1.01, price being 0 if unknown *)
RequiredCash(order, b) ==
    LET price == IF get_price(b, order.symbol) = None THEN Zero
                 ELSE get_price(b, order.symbol)
    IN  Mul(Mul(R(order.quantity), price), Frac(101, 100))

(* PaperTrader._validate_order *)
validate_order(order, acct, b) ==
    IF order.quantity <= 0 THEN FALSE
    ELSE IF order.side = "BUY"
    THEN ~Less(acct.cash, RequiredCash(order, b))
    ELSE /\ order.symbol \in DOMAIN acct.positions
         /\ ~(acct.positions[order.symbol].quantity < order.quantity)

(* account.positions with the position of the symbol set, or deleted *)
WithPosition(pos, symbol, p) ==
    [s \in DOMAIN pos \cup {symbol} |-> IF s = symbol THEN p ELSE pos[s]]

WithoutPosition(pos, symbol) == [s \in DOMAIN pos \ {symbol} |-> pos[s]]

(* PaperTrader._update_position *)
update_position(acct, order) ==
    LET symbol == order.symbol
        fill_price == order.filled_price
        fill_qty == order.filled_quantity
        position == IF symbol \in DOMAIN acct.positions
                    THEN acct.positions[symbol] ELSE PaperPosition(symbol)
        value == Mul(R(fill_qty), fill_price)
    IN  IF order.side = "BUY"
        THEN LET total_cost == Add(Mul(R(position.quantity), position.avg_cost),
                                   value)
                 quantity == position.quantity + fill_qty
                 bought == [position EXCEPT
                              !.quantity = quantity,
                              !.avg_cost = IF quantity > 0
                                           THEN Div(total_cost, R(quantity))
                                           ELSE @]
                 c == Sub(acct.cash, value)
             IN  [acct EXCEPT !.positions = WithPosition(@, symbol, bought),
                              !.cash = c, !.buying_power = c]
        ELSE LET pnl == Mul(R(fill_qty), Sub(fill_price, position.avg_cost))
                 quantity == position.quantity - fill_qty
                 sold == [position EXCEPT
                            !.realized_pnl = Add(@, pnl),
                            !.quantity = quantity]
                 c == Add(acct.cash, value)
             IN  [acct EXCEPT
                    !.positions = IF quantity = 0 THEN WithoutPosition(@, symbol)
                                  ELSE WithPosition(@, symbol, sold),
                    !.cash = c, !.buying_power = c]

(* PaperTrader.update_price, the position part: price and unrealized P&L *)
mark_position(acct, symbol, price) ==
    IF symbol \in DOMAIN acct.positions
    THEN [acct EXCEPT !.positions[symbol] =
            [@ EXCEPT !.current_price = price,
                      !.unrealized_pnl =
                          Mul(R(acct.positions[symbol].quantity),
                              Sub(price, acct.positions[symbol].avg_cost))]]
    ELSE acct

(* PaperTrader.__init__ *)
TraderInit(capital, slippage) ==
    /\ broker = MockBroker(slippage)
    /\ account = Account(capital)
    /\ book = <<>>
    /\ pending_orders = <<>>
    /\ tasks = <<>>
    /\ notified = <<>>
    /\ returned = {}
    /\ sent = <<>>
    /\ calls = 0

----------------------------------------------------------------------------
(* State machine *)

(* BacktestEngine.__init__ and _reset *)
EngineInit ==
    /\ config \in Configs
    /\ data = NoData
    /\ strategy = FALSE
    /\ timestamp = NoTime
    /\ cash = config.initial_capital
    /\ positions = <<>>
    /\ orders = <<>>
    /\ trades = <<>>
    /\ equity_curve = <<>>
    /\ pc = "idle"
    /\ idx = 0
    /\ bar = NoBar
    /\ cur_order = NoOrder
    /\ ret = FALSE
    /\ submitted = 0
    /\ frame = NoFrame
    /\ outcome = NoOutcome
    /\ runs = 0
    /\ script = <<>>

Init ==
    /\ EngineInit
    /\ equity = <<>>
    /\ trade_frame = NoTrades
    /\ risk_free_rate = Frac(1, 50)
    /\ periods_per_year = 252
    /\ metrics = NoMetrics
    /\ active = 1
    /\ other = NoInstance
    /\ interleaved = NoLedger
    /\ TraderInit(DefaultCapital, DefaultSlippage)

ledger == <<timestamp, cash, positions, orders, trades, equity_curve>>
loop == <<pc, idx, bar, cur_order, ret, submitted>>
arguments == <<equity, trade_frame, risk_free_rate, periods_per_year>>
calculator == <<arguments, metrics>>
instances == <<active, other, interleaved>>
trader == <<broker, account, book, pending_orders, tasks, notified, returned,
            sent, calls>>

(* BacktestEngine.load_data: the column check, then the sorted frame is kept *)
LoadData(kind, maxBars) ==
    /\ pc = "idle"
    /\ data = NoData
    /\ \E a \in FramesOf(kind, maxBars) :
          LET f == Frame(a[1], a[2])
          IN  /\ frame' = f
              /\ IF missing(f.columns) = {}
                 THEN /\ data' = Data(f.columns, sort_values(f.timestamps))
                      /\ outcome' = ReturnedNone
                 ELSE /\ data' = data
                      /\ outcome' = ValueError
    /\ UNCHANGED <<config, strategy, ledger, loop, runs, script, calculator, instances, trader>>

(* BacktestEngine.set_strategy *)
SetStrategy ==
    /\ pc = "idle"
    /\ strategy = FALSE
    /\ strategy' = TRUE
    /\ outcome' = ReturnedNone
    /\ UNCHANGED <<config, data, ledger, loop, frame, runs, script, calculator, instances, trader>>

(* Mutant: run() only checks that data is loaded *)
ChecksPassWithData(d, st) == d.loaded

(* run(): data is not None and strategy is not None *)
ChecksPass(d, st) == d.loaded /\ st

(* run(): one of the two checks raises *)
RunFails ==
    /\ pc = "idle"
    /\ ~ChecksPass(data, strategy)
    /\ outcome' = ValueError
    /\ UNCHANGED <<config, data, strategy, ledger, loop, frame, runs, script,
                   calculator, instances, trader>>

(* Mutant: the loop leaves out the last row *)
LoopEndsEarly(i, d) == i + 2 < Len(d.timestamps)

(* for idx in range(len(self.data)): after index i there is another row *)
LoopGoesOn(i, d) == i + 1 < Len(d.timestamps)

(* run(): both checks pass and _reset; with no rows the loop is skipped and *)
(* the result is returned                                                   *)
StartRun ==
    /\ ChecksPass(data, strategy)
    /\ timestamp' = reset(config).timestamp
    /\ cash' = reset(config).cash
    /\ positions' = reset(config).positions
    /\ orders' = reset(config).orders
    /\ trades' = reset(config).trades
    /\ equity_curve' = reset(config).equity_curve
    /\ idx' = 0
    /\ submitted' = 0
    /\ runs' = runs + 1
    /\ IF LoopGoesOn(-1, data)
       THEN pc' = "bar" /\ outcome' = outcome
       ELSE pc' = "done" /\ outcome' = run_result(<<>>, <<>>, config)
    /\ UNCHANGED <<config, data, strategy, bar, cur_order, ret, frame,
                   calculator, trader>>

(* The first run() of an engine *)
RunStart ==
    /\ pc = "idle"
    /\ StartRun
    /\ UNCHANGED <<script, instances, trader>>

(* run() called again after it returned *)
RunAgain(maxRuns) ==
    /\ pc = "done"
    /\ runs < maxRuns
    /\ StartRun
    /\ UNCHANGED <<script, instances, trader>>

(* run(): one iteration up to the return of the strategy: the bar is read,  *)
(* positions are marked and the strategy is called.  The list it returns is *)
(* an input: each of its orders is drawn when the loop reaches it.          *)
NextBar ==
    /\ pc = "bar"
    /\ idx < Len(data.timestamps)
    /\ \E b \in Bars(data.timestamps[idx + 1]) :
          /\ bar' = b
          /\ timestamp' = b.timestamp
          /\ positions' = update_positions(positions, b)
    /\ pc' = "orders"
    /\ UNCHANGED <<config, data, strategy, cash, orders, trades, equity_curve,
                   idx, cur_order, ret, submitted, frame, outcome, runs,
                   calculator, instances, trader>>

(* The same step of run() on a frame whose rows belong to several symbols *)
NextSymbolBar ==
    /\ pc = "bar"
    /\ idx < Len(data.timestamps)
    /\ \E b \in SymbolBars(data.timestamps[idx + 1]) :
          /\ bar' = b
          /\ timestamp' = b.timestamp
          /\ positions' = update_positions(positions, b)
    /\ pc' = "orders"
    /\ UNCHANGED <<config, data, strategy, cash, orders, trades, equity_curve,
                   idx, cur_order, ret, submitted, frame, outcome, runs,
                   calculator, instances, trader>>

(* run(): the next order of the list is stamped and submitted *)
SubmitOrder(types, syms, maxOrders) ==
    /\ pc = "orders"
    /\ submitted < maxOrders
    /\ \E a \in OrdersOf(types, syms) :
          LET o == Order(a[1], a[2], a[3], a[4], a[5])
              r == execute_order([o EXCEPT !.timestamp = bar.timestamp], bar,
                                 config, cash, positions, trades)
          IN  /\ ret' = r.ret
              /\ cur_order' = r.order
              /\ cash' = r.cash
              /\ positions' = r.positions
              /\ trades' = r.trades
              /\ orders' = IF r.ret THEN Append(orders, r.order) ELSE orders
    /\ submitted' = submitted + 1
    /\ UNCHANGED <<config, data, strategy, timestamp, equity_curve, pc, idx, bar,
                   frame, outcome, runs, calculator, instances, trader>>

(* run(): the list is exhausted and the bar's EquityPoint is appended; after *)
(* the last bar the result is returned                                       *)
AppendEquityPoint ==
    /\ pc = "orders"
    /\ equity_curve' = Append(equity_curve,
                              [timestamp |-> bar.timestamp,
                               equity |-> get_equity(cash, positions),
                               cash |-> cash])
    /\ idx' = idx + 1
    /\ IF LoopGoesOn(idx, data)
       THEN pc' = "bar" /\ outcome' = outcome
       ELSE pc' = "done" /\ outcome' = run_result(equity_curve', trades, config)
    /\ UNCHANGED <<config, data, strategy, timestamp, cash, positions, orders,
                   trades, bar, cur_order, ret, submitted, frame, runs,
                   calculator, instances, trader>>

(* The three steps of the loop when the inputs of the run are not recorded *)
BarStep == NextBar /\ UNCHANGED script

ExecuteOrder(types, syms, maxOrders) ==
    SubmitOrder(types, syms, maxOrders) /\ UNCHANGED script

RecordEquity == AppendEquityPoint /\ UNCHANGED script

Next ==
    \/ LoadData("sorted", MaxBars)
    \/ SetStrategy
    \/ RunStart
    \/ BarStep
    \/ ExecuteOrder(<<"MARKET">>, {"A"}, MaxOrders)
    \/ RecordEquity

Spec == Init /\ [][Next]_vars

(* Runs whose strategy also returns limit orders *)
NextLimit ==
    \/ LoadData("sorted", MaxLimitBars)
    \/ SetStrategy
    \/ RunStart
    \/ BarStep
    \/ ExecuteOrder(<<"MARKET", "LIMIT">>, {"A"}, MaxLimitOrders)
    \/ RecordEquity

SpecLimit == Init /\ [][NextLimit]_vars

(* Runs whose strategy trades both symbols *)
NextSymbols ==
    \/ LoadData("sorted", MaxSymbolBars)
    \/ SetStrategy
    \/ RunStart
    \/ BarStep
    \/ ExecuteOrder(<<"MARKET">>, Symbols, MaxSymbolOrders)
    \/ RecordEquity

SpecSymbols == Init /\ [][NextSymbols]_vars

(* Runs over a frame with rows of both symbols *)
SymbolBarStep == NextSymbolBar /\ UNCHANGED script

NextMixed ==
    \/ LoadData("sorted", MaxMixedBars)
    \/ SetStrategy
    \/ RunStart
    \/ SymbolBarStep
    \/ ExecuteOrder(<<"MARKET">>, Symbols, MaxMixedOrders)
    \/ RecordEquity

SpecMixed == Init /\ [][NextMixed]_vars

(* Runs whose strategy returns market orders of any size *)
NextSizes ==
    \/ LoadData("sorted", MaxSizeBars)
    \/ SetStrategy
    \/ RunStart
    \/ BarStep
    \/ ExecuteOrder(<<"ANY SIZE">>, {"A"}, MaxSizeOrders)
    \/ RecordEquity

SpecSizes == Init /\ [][NextSizes]_vars

(* Engines given any frame, and run() called at any time *)
NextLoad ==
    \/ LoadData("any", MaxLoadBars)
    \/ SetStrategy
    \/ RunFails
    \/ RunStart
    \/ BarStep
    \/ ExecuteOrder(<<"MARKET">>, {"A"}, MaxLoadOrders)
    \/ RecordEquity

SpecLoad == Init /\ [][NextLoad]_vars

(* The for-loop over the orders the strategy returned ends: the list is     *)
(* finite. Among the steps of NextLoad these are the steps of RecordEquity. *)
OrdersLoopEnds == pc = "orders" /\ pc' \in {"bar", "done"}

(* run() is synchronous: once called it goes on to the next statement, and *)
(* the list the strategy returned is finite, so its loop over it ends      *)
SpecLoadFair ==
    /\ Init
    /\ [][NextLoad]_vars
    /\ WF_vars(BarStep)
    /\ WF_pc(OrdersLoopEnds)

(* The same engine run again on the same data with a deterministic,         *)
(* stateless strategy: the first run records the bars it read and the       *)
(* orders the strategy returned, later runs read and get the same ones      *)
Consumed == idx + submitted + (IF pc = "orders" THEN 1 ELSE 0)

NextEvent == IF Consumed < Len(script) THEN script[Consumed + 1][1] ELSE "end"

BarStepScripted ==
    /\ NextBar
    /\ IF runs > 1
       THEN /\ NextEvent = "bar"
            /\ bar' = script[Consumed + 1][2]
            /\ script' = script
       ELSE script' = Append(script, <<"bar", bar'>>)

ExecuteOrderScripted(types, syms, maxOrders) ==
    /\ SubmitOrder(types, syms, maxOrders)
    /\ IF runs > 1
       THEN /\ NextEvent = "order"
            /\ OrderArgs(cur_order') = script[Consumed + 1][2]
            /\ script' = script
       ELSE script' = Append(script, <<"order", OrderArgs(cur_order')>>)

RecordEquityScripted ==
    /\ AppendEquityPoint
    /\ runs > 1 => NextEvent # "order"
    /\ UNCHANGED script

NextRerun ==
    \/ LoadData("sorted", MaxRerunBars)
    \/ SetStrategy
    \/ RunStart
    \/ RunAgain(MaxRuns)
    \/ BarStepScripted
    \/ ExecuteOrderScripted(<<"MARKET">>, {"A"}, MaxRerunOrders)
    \/ RecordEquityScripted

SpecRerun == Init /\ [][NextRerun]_vars

(* Two BacktestEngine instances, each with its own data and strategy, made *)
(* with the same BacktestConfig and stepped in turn, changing instance     *)
(* between bars.  After its interleaved run an instance runs again with    *)
(* the same bars and orders, this time from start to end without the other *)
(* instance stepping.                                                      *)

(* The attributes of the instance that is stepping, and where its run() is *)
Instance ==
    [config |-> config, data |-> data, strategy |-> strategy,
     timestamp |-> timestamp, cash |-> cash, positions |-> positions,
     orders |-> orders, trades |-> trades, equity_curve |-> equity_curve,
     pc |-> pc, idx |-> idx, bar |-> bar, cur_order |-> cur_order, ret |-> ret,
     submitted |-> submitted, frame |-> frame, outcome |-> outcome,
     runs |-> runs, script |-> script]

(* BacktestEngine(cfg) *)
NewInstance(cfg) ==
    [config |-> cfg, data |-> NoData, strategy |-> FALSE,
     timestamp |-> NoTime, cash |-> cfg.initial_capital, positions |-> <<>>,
     orders |-> <<>>, trades |-> <<>>, equity_curve |-> <<>>,
     pc |-> "idle", idx |-> 0, bar |-> NoBar, cur_order |-> NoOrder,
     ret |-> FALSE, submitted |-> 0, frame |-> NoFrame, outcome |-> NoOutcome,
     runs |-> 0, script |-> <<>>]

(* self.state as a value *)
Ledger ==
    [timestamp |-> timestamp, cash |-> cash, positions |-> positions,
     orders |-> orders, trades |-> trades, equity_curve |-> equity_curve]

(* Mutant: one BacktestState for all instances: an instance goes on with *)
(* the ledger the other one has left                                     *)
SharedState(o) ==
    [o EXCEPT !.timestamp = timestamp, !.cash = cash, !.positions = positions,
              !.orders = orders, !.trades = trades,
              !.equity_curve = equity_curve]

(* Each instance has the BacktestState its own __init__ and _reset made: it *)
(* goes on with the attributes it had when it stopped                       *)
OwnState(o) == o

InitPair ==
    /\ EngineInit
    /\ equity = <<>>
    /\ trade_frame = NoTrades
    /\ risk_free_rate = Frac(1, 50)
    /\ periods_per_year = 252
    /\ metrics = NoMetrics
    /\ active = 1
    /\ other = NewInstance(config)
    /\ interleaved = NoLedger
    /\ TraderInit(DefaultCapital, DefaultSlippage)

Switch ==
    /\ other # NoInstance
    /\ pc \in {"idle", "bar", "done"}
    /\ runs < 2 \/ pc = "done"
    /\ other' = Instance
    /\ active' = 3 - active
    /\ LET o == OwnState(other)
       IN  /\ config' = o.config
           /\ data' = o.data
           /\ strategy' = o.strategy
           /\ timestamp' = o.timestamp
           /\ cash' = o.cash
           /\ positions' = o.positions
           /\ orders' = o.orders
           /\ trades' = o.trades
           /\ equity_curve' = o.equity_curve
           /\ pc' = o.pc
           /\ idx' = o.idx
           /\ bar' = o.bar
           /\ cur_order' = o.cur_order
           /\ ret' = o.ret
           /\ submitted' = o.submitted
           /\ frame' = o.frame
           /\ outcome' = o.outcome
           /\ runs' = o.runs
           /\ script' = o.script
    /\ UNCHANGED <<calculator, interleaved, trader>>

(* run() called again on an instance whose interleaved run has returned *)
RunAlone ==
    /\ other # NoInstance
    /\ pc = "done"
    /\ runs = 1
    /\ StartRun
    /\ interleaved' = Ledger
    /\ UNCHANGED <<script, active, other>>

NextPair ==
    \/ LoadData("sorted", MaxPairBars)
    \/ SetStrategy
    \/ RunStart
    \/ RunAlone
    \/ BarStepScripted
    \/ ExecuteOrderScripted(<<"MARKET">>, {"A"}, MaxPairOrders)
    \/ RecordEquityScripted
    \/ Switch

SpecPair == InitPair /\ [][NextPair]_vars

----------------------------------------------------------------------------
(* Calls of BacktestMetrics.from_equity_curve *)

EquityValues == {0, 1, 2, 4}

EquitySeries(maxLen) == SeqsUpTo(EquityValues, maxLen)

RiskFreeRates == {Zero, Frac(1, 50)}

PnlValues == {R(-1), Zero, R(2)}

(* None, an empty frame, or a frame of up to maxTrades trades *)
TradeFrames(maxTrades) ==
    {NoTrades} \cup {Trades(pnl) : pnl \in SeqsUpTo(PnlValues, maxTrades)}

(* A call with the curve alone, in months *)
InitMetrics ==
    /\ EngineInit
    /\ config.commission = Zero
    /\ config.allow_shorting
    /\ equity \in EquitySeries(MaxCurveLen)
    /\ trade_frame = NoTrades
    /\ risk_free_rate \in RiskFreeRates
    /\ periods_per_year = 12
    /\ metrics = NoMetrics
    /\ active = 1
    /\ other = NoInstance
    /\ interleaved = NoLedger
    /\ TraderInit(DefaultCapital, DefaultSlippage)

(* A call with a short curve and a trade list *)
InitTrades ==
    /\ EngineInit
    /\ config.commission = Zero
    /\ config.allow_shorting
    /\ equity \in EquitySeries(MaxTradeCurveLen)
    /\ trade_frame \in TradeFrames(MaxTrades)
    /\ risk_free_rate = Zero
    /\ periods_per_year = 12
    /\ metrics = NoMetrics
    /\ active = 1
    /\ other = NoInstance
    /\ interleaved = NoLedger
    /\ TraderInit(DefaultCapital, DefaultSlippage)

FromEquityCurve ==
    /\ metrics = NoMetrics
    /\ metrics' = from_equity_curve(equity, trade_frame, risk_free_rate,
                                    periods_per_year)
    /\ UNCHANGED <<config, data, strategy, ledger, loop, frame, outcome, runs,
                   script, arguments, instances, trader>>

NextMetrics == FromEquityCurve

SpecMetrics == InitMetrics /\ [][NextMetrics]_vars

SpecTrades == InitTrades /\ [][NextMetrics]_vars

----------------------------------------------------------------------------
(* The paper trader as a state machine.  The calls are coroutines on one    *)
(* asyncio event loop: a coroutine runs alone up to its next await, and the *)
(* only await that suspends is the sleep in MockBroker.execute_order.  A    *)
(* task is a call suspended there: the order it passed to the broker, the   *)
(* rest of the list update_price is looping over, and the kind of call.     *)

engine == <<config, data, strategy, ledger, loop, frame, outcome, runs, script>>

PaperCapital == R(3)

Slippages == {Zero, Frac(1, 2)}

PaperPrices == {R(1), R(2)}

PaperQuantities == {1, 2}

(* The arguments of submit_order: symbol, side, quantity, order_type,      *)
(* limit_price, stop_price                                                 *)
PaperOrders(types, syms, quantities) ==
    UNION {IF types[i] = "MARKET"
           THEN {<<s, sd, q, "MARKET", None, None>> :
                   s \in syms, sd \in {"BUY", "SELL"}, q \in quantities}
           ELSE IF types[i] = "LIMIT"
           THEN {<<s, sd, q, "LIMIT", lp, None>> :
                   s \in syms, sd \in {"BUY", "SELL"}, q \in quantities,
                   lp \in PaperPrices}
           ELSE {<<s, sd, q, "STOP", None, sp>> :
                   s \in syms, sd \in {"BUY", "SELL"}, q \in quantities,
                   sp \in PaperPrices} : i \in 1..Len(types)}

InitPaper ==
    /\ EngineInit
    /\ config.commission = Zero
    /\ ~config.allow_shorting
    /\ equity = <<>>
    /\ trade_frame = NoTrades
    /\ risk_free_rate = Frac(1, 50)
    /\ periods_per_year = 252
    /\ metrics = NoMetrics
    /\ active = 1
    /\ other = NoInstance
    /\ interleaved = NoLedger
    /\ \E sl \in Slippages : TraderInit(PaperCapital, sl)

Returned(call, id, value) == [call |-> call, order |-> id, value |-> value]

Task(call, id, rest) == [call |-> call, order |-> id, rest |-> rest]

(* list.remove(x): the list without the first x *)
RECURSIVE remove(_, _)
remove(list, x) ==
    IF list = <<>> THEN <<>>
    ELSE IF Head(list) = x THEN Tail(list)
    ELSE <<Head(list)>> \o remove(Tail(list), x)

(* x in list *)
Contains(list, x) == \E j \in 1..Len(list) : list[j] = x

WithoutTask(i) == SubSeq(tasks, 1, i - 1) \o SubSeq(tasks, i + 1, Len(tasks))

(* PaperTrader.submit_order up to its return or its await of the broker *)
SubmitOrderCall(types, syms, quantities, maxOrders, maxCalls, maxTasks) ==
    /\ calls < maxCalls
    /\ Len(book) < maxOrders
    /\ Len(tasks) < maxTasks
    /\ \E a \in PaperOrders(types, syms, quantities) :
          LET id == Len(book) + 1
              order == PaperOrder(id, a[1], a[2], a[3], a[4], a[5], a[6])
          IN  IF ~validate_order(order, account, broker)
              THEN /\ book' = Append(book, [order EXCEPT !.status = "REJECTED"])
                   /\ returned' = returned \cup
                                    {Returned("submit_order", id, "REJECTED")}
                   /\ sent' = Append(sent, 0)
                   /\ UNCHANGED <<pending_orders, tasks>>
              ELSE IF order.order_type = "MARKET"
              THEN /\ book' = Append(book, order)
                   /\ tasks' = Append(tasks, Task("submit_order", id, <<>>))
                   /\ sent' = Append(sent, 1)
                   /\ UNCHANGED <<pending_orders, returned>>
              ELSE /\ book' = Append(book, order)
                   /\ pending_orders' = Append(pending_orders, id)
                   /\ returned' = returned \cup
                                    {Returned("submit_order", id, "SUBMITTED")}
                   /\ sent' = Append(sent, 0)
                   /\ UNCHANGED tasks
    /\ notified' = Append(notified, 0)
    /\ calls' = calls + 1
    /\ UNCHANGED <<broker, account, engine, calculator, instances>>

(* PaperTrader.update_price up to its return or its first await *)
UpdatePriceCall(syms, maxCalls, maxTasks) ==
    /\ calls < maxCalls
    /\ Len(tasks) < maxTasks
    /\ \E symbol \in syms, price \in PaperPrices :
          LET matching == SelectSeq(pending_orders,
                                    LAMBDA id : book[id].symbol = symbol)
          IN  /\ broker' = set_price(broker, symbol, price)
              /\ account' = mark_position(account, symbol, price)
              /\ IF matching = <<>>
                 THEN /\ returned' = returned \cup
                                       {Returned("update_price", 0, "None")}
                      /\ UNCHANGED <<tasks, sent>>
                 ELSE /\ tasks' = Append(tasks, Task("update_price", Head(matching),
                                                     Tail(matching)))
                      /\ sent' = [sent EXCEPT ![Head(matching)] = @ + 1]
                      /\ UNCHANGED returned
    /\ calls' = calls + 1
    /\ UNCHANGED <<book, pending_orders, notified, engine, calculator, instances>>

(* PaperTrader.cancel_order: it has no await that suspends *)
CancelOrderCall(maxCalls, maxTasks) ==
    /\ calls < maxCalls
    /\ Len(tasks) < maxTasks
    /\ \E id \in 1..Len(book) :
          IF book[id].status \in {"PENDING", "SUBMITTED"}
          THEN /\ book' = [book EXCEPT ![id].status = "CANCELLED"]
               /\ pending_orders' = remove(pending_orders, id)
               /\ returned' = returned \cup {Returned("cancel_order", id, "True")}
          ELSE /\ returned' = returned \cup {Returned("cancel_order", id, "False")}
               /\ UNCHANGED <<book, pending_orders>>
    /\ calls' = calls + 1
    /\ UNCHANGED <<broker, account, tasks, notified, sent, engine, calculator,
                   instances>>

(* The sleep of a task ends: MockBroker.execute_order runs to its return,   *)
(* PaperTrader._execute_order applies a fill, and the caller goes on to its *)
(* return or to its next await                                              *)
BrokerReturns ==
    \E i \in 1..Len(tasks) :
        LET t == tasks[i]
            id == t.order
            executed == broker_execute(broker, book[id])
            filled == executed.status = "FILLED"
        IN  /\ book' = [book EXCEPT ![id] = executed]
            /\ account' = IF filled THEN update_position(account, executed)
                          ELSE account
            /\ notified' = IF filled THEN [notified EXCEPT ![id] = @ + 1]
                           ELSE notified
            /\ IF t.call = "submit_order"
               THEN /\ returned' = returned \cup
                          {Returned("submit_order", id, executed.status)}
                    /\ tasks' = WithoutTask(i)
                    /\ UNCHANGED <<pending_orders, sent>>
               ELSE IF filled /\ ~Contains(pending_orders, id)
               THEN /\ returned' = returned \cup
                          {Returned("update_price", id, "ValueError")}
                    /\ tasks' = WithoutTask(i)
                    /\ UNCHANGED <<pending_orders, sent>>
               ELSE /\ pending_orders' = IF filled THEN remove(pending_orders, id)
                                         ELSE pending_orders
                    /\ IF t.rest = <<>>
                       THEN /\ returned' = returned \cup
                                  {Returned("update_price", 0, "None")}
                            /\ tasks' = WithoutTask(i)
                            /\ UNCHANGED sent
                       ELSE /\ tasks' = [tasks EXCEPT ![i] =
                                  Task("update_price", Head(t.rest), Tail(t.rest))]
                            /\ sent' = [sent EXCEPT ![Head(t.rest)] = @ + 1]
                            /\ UNCHANGED returned
    /\ UNCHANGED <<broker, calls, engine, calculator, instances>>

(* Calls made while other calls are suspended: tasks of one event loop *)
NextPaper ==
    \/ SubmitOrderCall(<<"MARKET", "LIMIT">>, {"A"}, PaperQuantities,
                       MaxPaperOrders, MaxPaperCalls, MaxTasks)
    \/ UpdatePriceCall({"A"}, MaxPaperCalls, MaxTasks)
    \/ CancelOrderCall(MaxPaperCalls, MaxTasks)
    \/ BrokerReturns

SpecPaper == InitPaper /\ [][NextPaper]_vars

(* Calls whose orders may have any quantity *)
PaperSizes == {-1, 0, 2}

NextPaperSubmit ==
    \/ SubmitOrderCall(<<"MARKET", "LIMIT">>, {"A"}, PaperSizes,
                       MaxSubmitOrders, MaxSubmitCalls, 1)
    \/ UpdatePriceCall({"A"}, MaxSubmitCalls, 1)
    \/ BrokerReturns

SpecPaperSubmit == InitPaper /\ [][NextPaperSubmit]_vars

(* Every call is awaited before the next one is made *)
NextPaperSeq ==
    \/ SubmitOrderCall(<<"MARKET", "LIMIT", "STOP">>, Symbols, PaperQuantities,
                       MaxSeqOrders, MaxSeqCalls, 1)
    \/ UpdatePriceCall(Symbols, MaxSeqCalls, 1)
    \/ CancelOrderCall(MaxSeqCalls, 1)
    \/ BrokerReturns

SpecPaperSeq == InitPaper /\ [][NextPaperSeq]_vars

----------------------------------------------------------------------------
(* Cash recomputed from the executed-order log: the first i fills *)
RECURSIVE CashFromLog(_, _, _)
CashFromLog(log, cfg, i) ==
    IF i = 0 THEN cfg.initial_capital
    ELSE LET o == log[i]
             tv == Mul(R(o.quantity), o.fill_price)
             fee == Mul(tv, cfg.commission)
             before == CashFromLog(log, cfg, i - 1)
         IN  IF o.side = BUY THEN Sub(before, Add(tv, fee))
             ELSE Add(before, Sub(tv, fee))

(* C1: cash conservation.  In every state cash equals initial_capital minus  *)
(* (transaction_value + commission) of every filled buy plus                 *)
(* (transaction_value - commission) of every filled sell, whether the sell   *)
(* reduced a long or opened or extended a short; rejected orders, which are  *)
(* not in the log, contribute nothing.                                       *)
C1_CashConservation == cash = CashFromLog(orders, config, Len(orders))

(* A run with commission in which a buy filled, a sell filled that left the  *)
(* position short, and an order was rejected                                 *)
C1_Witness ==
    /\ config.commission # Zero
    /\ \E i, j \in 1..Len(orders) : orders[i].side = BUY /\ orders[j].side = SELL
    /\ "A" \in DOMAIN positions /\ positions["A"].quantity < 0
    /\ submitted > Len(orders)


----------------------------------------------------------------------------
(* Replay of the executed-order log *)

(* Signed quantity of symbol s after the first i fills of the log *)
RECURSIVE QtyAfter(_, _, _)
QtyAfter(log, s, i) ==
    IF i = 0 THEN 0
    ELSE QtyAfter(log, s, i - 1)
         + (IF log[i].symbol = s THEN log[i].side * log[i].quantity ELSE 0)

(* Number of the last fill after which symbol s was flat (0: never since start) *)
LastFlat(log, s) ==
    CHOOSE i \in 0..Len(log) :
        /\ QtyAfter(log, s, i) = 0
        /\ \A j \in (i + 1)..Len(log) : QtyAfter(log, s, j) # 0

(* The fills of symbol s since it was last flat *)
OpenFills(log, s) ==
    {i \in (LastFlat(log, s) + 1)..Len(log) : log[i].symbol = s}

(* Quantity-weighted mean fill price of a set of fills *)
MeanFillPrice(log, I) ==
    Div(SumOver([i \in I |-> Mul(R(log[i].quantity), log[i].fill_price)], I),
        SumOver([i \in I |-> R(log[i].quantity)], I))

Qty(pos, s) == IF s \in DOMAIN pos THEN pos[s].quantity ELSE 0

MarkToMarket(c, pos, b) ==
    Add(c, SumOver([s \in DOMAIN pos |-> Mul(R(pos[s].quantity), b.close)],
                   DOMAIN pos))

ZeroCost == config.commission = Zero /\ config.slippage = Zero

(* C3: with zero slippage and commission (market orders, one symbol), the    *)
(* equity of the EquityPoint just recorded equals cash plus quantity times   *)
(* the bar's close over all positions, after any buys and sells.             *)
C3_EquityIsMarkToMarket ==
    (ZeroCost /\ pc \in {"bar", "done"} /\ Len(equity_curve) > 0) =>
        equity_curve[Len(equity_curve)].equity
            = MarkToMarket(cash, positions, bar)

(* C4: a Position with quantity 0 has average cost 0 and no entry timestamp *)
C4_ZeroQuantityInvariant ==
    \A s \in DOMAIN positions :
        positions[s].quantity = 0 =>
            positions[s].avg_price = Zero /\ positions[s].entry_time = NoTime

(* C5: after same-direction fills from a flat position (only buys, or only   *)
(* sells), the average cost is the quantity-weighted mean of the fill prices *)
C5_AverageCost ==
    \A s \in DOMAIN positions :
        LET I == OpenFills(orders, s)
        IN  (I # {} /\ \E sd \in {BUY, SELL} : \A i \in I : orders[i].side = sd)
              => positions[s].avg_price = MeanFillPrice(orders, I)


----------------------------------------------------------------------------
(* Steps of run() that submit an order to _execute_order *)

Submitting == submitted' = submitted + 1
AfterCall == cur_order'
Submitted ==
    [AfterCall EXCEPT !.filled = FALSE, !.fill_price = None,
                      !.fill_timestamp = NoTime]

(* Cash a buy needs, from the bar and the configuration *)
CashNeeded(o) ==
    LET price == Mul(IF o.order_type = "MARKET" THEN bar.close ELSE o.limit_price,
                     Add(R(1), config.slippage))
    IN  Mul(Mul(R(o.quantity), price), Add(R(1), config.commission))

C6_Step ==
    Submitting =>
        /\ (Submitted.side = BUY /\ ret') => Leq(CashNeeded(Submitted), cash)
        /\ (Submitted.side = BUY /\ CashNeeded(Submitted) = cash) =>
               ret' /\ cash' = Zero
        /\ Submitted.side = SELL => Leq(cash, cash')

(* C6: with initial_capital >= 0, rates in [0,1) and positive quantities,    *)
(* cash is never negative; a buy is filled only when transaction_value +     *)
(* commission <= cash, a buy needing exactly the cash at hand is filled and  *)
(* leaves cash 0, and no sell lowers cash.                                   *)
C6_CashNeverNegative == [](Leq(Zero, cash)) /\ [][C6_Step]_vars

(* A buy that needed exactly the cash at hand was filled *)
C6_Witness ==
    /\ cash = Zero
    /\ submitted > 0 /\ cur_order.side = BUY /\ cur_order.filled

C7_Step ==
    (Submitting /\ ~config.allow_shorting /\ Submitted.side = SELL
       /\ Submitted.quantity > Qty(positions, Submitted.symbol)) => ~ret'

(* C7: with allow_shorting = false no Position quantity is ever negative,    *)
(* and every sell of more than the held quantity of its symbol is rejected.  *)
C7_NoShortWhenDisallowed ==
    /\ [](~config.allow_shorting =>
             \A s \in DOMAIN positions : positions[s].quantity >= 0)
    /\ [][C7_Step]_vars

(* A sell of 2 was rejected while 1 was held, shorting disallowed *)
C7_Witness ==
    /\ ~config.allow_shorting
    /\ submitted > 0 /\ cur_order.side = SELL /\ ~cur_order.filled
    /\ cur_order.quantity = 2
    /\ Qty(positions, "A") = 1

(* The fills of the log that are sells applied to a positive quantity *)
ClosingSells(log) ==
    SelectSeq([i \in 1..Len(log) |-> i],
              LAMBDA i : log[i].side = SELL
                         /\ QtyAfter(log, log[i].symbol, i - 1) > 0)

C8_Step ==
    IF Submitting
    THEN LET held == Qty(positions, Submitted.symbol)
         IN  IF ret' /\ Submitted.side = SELL /\ held > 0
             THEN /\ Len(trades') = Len(trades) + 1
                  /\ SubSeq(trades', 1, Len(trades)) = trades
                  /\ trades'[Len(trades')].quantity = Min(Submitted.quantity, held)
             ELSE trades' = trades
    ELSE trades' = trades \/ (pc = "idle" /\ trades' = <<>>)

(* C8: a Trade is appended exactly by a filled sell applied to a quantity    *)
(* > 0, and then exactly one, of quantity min(order quantity, prior          *)
(* quantity); the trade-log length is the number of such sells.              *)
C8_TradeExactlyOnClosingSell ==
    /\ [](Len(trades) = Len(ClosingSells(orders)))
    /\ [][C8_Step]_vars

(* A sell of 2 closed a long of 1 (one Trade of quantity 1) and another sell *)
(* filled on a flat or short position without a Trade                        *)
C8_Witness ==
    /\ Len(trades) = 1 /\ trades[1].quantity = 1
    /\ \E i, j \in 1..Len(orders) :
          /\ i < j /\ orders[i].side = SELL /\ orders[i].quantity = 2
          /\ orders[j].side = SELL
    /\ ClosingSells(orders) # <<>>

C9_Step ==
    (Submitting /\ Len(trades') = Len(trades) + 1) =>
        LET t == trades'[Len(trades')]
            p == positions[Submitted.symbol]
        IN  /\ t.entry_price = p.avg_price
            /\ t.exit_price = AfterCall.fill_price
            /\ t.exit_time = bar.timestamp
            /\ t.pnl = Mul(R(t.quantity), Sub(t.exit_price, t.entry_price))
            /\ t.return_pct = IF t.entry_price = Zero THEN Zero
                              ELSE Div(t.pnl, Mul(R(t.quantity), t.entry_price))

(* C9: every Trade has entry_price = the average cost before the closing     *)
(* fill, exit_price = the sell's fill price, exit timestamp = the bar's,     *)
(* pnl = quantity x (exit_price - entry_price) and return_pct = pnl /        *)
(* (quantity x entry_price), or 0 when entry_price is 0.                     *)
C9_RoundTrip == [][C9_Step]_vars

(* The fill at which the long lot closed by fill i was opened: the last fill *)
(* before i that took the symbol's quantity from <= 0 to > 0                 *)
LotOpen(log, i) ==
    CHOOSE j \in 1..(i - 1) :
        /\ log[j].symbol = log[i].symbol
        /\ QtyAfter(log, log[i].symbol, j - 1) <= 0
        /\ QtyAfter(log, log[i].symbol, j) > 0
        /\ \A m \in (j + 1)..(i - 1) :
               QtyAfter(log, log[i].symbol, m) > 0

(* C10: the entry timestamp of every Trade is the timestamp of the bar on    *)
(* which the long lot it closes was opened, and is never later than the exit *)
(* timestamp.                                                                *)
C10_EntryTimestamp ==
    \A n \in 1..Len(trades) :
        LET cs == ClosingSells(orders)
        IN  /\ trades[n].entry_time
                 = orders[LotOpen(orders, cs[n])].fill_timestamp
            /\ trades[n].entry_time <= trades[n].exit_time


----------------------------------------------------------------------------
(* The three per-order rejections, from the bar, the ledger and the order *)

Untouched(o) ==
    /\ o.order_type = "LIMIT"
    /\ \/ o.side = BUY /\ Less(o.limit_price, bar.low)
       \/ o.side = SELL /\ Less(bar.high, o.limit_price)

CashShort(o) == o.side = BUY /\ Less(cash, CashNeeded(o))

ShortDisallowed(o) ==
    o.side = SELL /\ ~config.allow_shorting
      /\ Qty(positions, o.symbol) < o.quantity

ZeroPosition(s) ==
    [symbol |-> s, quantity |-> 0, avg_price |-> Zero, unrealized_pnl |-> Zero,
     realized_pnl |-> Zero, entry_time |-> NoTime]

C2_Returns ==
    Submitting =>
        ((Untouched(Submitted) \/ CashShort(Submitted)
            \/ ShortDisallowed(Submitted)) => ~ret')

C2_StepOriginal ==
    (Submitting /\ ~ret') =>
        /\ cash' = cash
        /\ positions' = positions
        /\ trades' = trades
        /\ orders' = orders
        /\ AfterCall = Submitted /\ ~AfterCall.filled

(* C2 as claimed: each of the three rejections returns false and leaves      *)
(* cash, the set of Position records and every field of each, the trade log  *)
(* and the executed-order log unchanged, with order.filled still false.      *)
C2_RejectLeavesLedger == [][C2_Returns /\ C2_StepOriginal]_vars

C2_Step ==
    (Submitting /\ ~ret') =>
        /\ cash' = cash
        /\ trades' = trades
        /\ orders' = orders
        /\ AfterCall = Submitted /\ ~AfterCall.filled
        /\ \A s \in DOMAIN positions :
              s \in DOMAIN positions' /\ positions'[s] = positions[s]
        /\ \A s \in DOMAIN positions' \ DOMAIN positions :
              /\ s = Submitted.symbol
              /\ ShortDisallowed(Submitted)
              /\ positions'[s] = ZeroPosition(s)
        /\ get_equity(cash', positions') = get_equity(cash, positions)

(* C2 as amended: each of the three rejections returns false and leaves      *)
(* cash, every existing Position record, the trade log and the               *)
(* executed-order log unchanged, with order.filled still false; the only     *)
(* change is that a sell rejected because shorting is disallowed creates the *)
(* all-zero Position record of its symbol when the symbol had none.          *)
C2_RejectLeavesLedgerAmended == [][C2_Returns /\ C2_Step]_vars

(* Three orders were submitted and all rejected: the last one a limit order  *)
(* the bar did not touch, an earlier one a sell refused for shorting (it     *)
(* left the zero Position record), with no cash moved                        *)
C2_Witness ==
    /\ submitted = 3 /\ ~config.allow_shorting
    /\ ~ret /\ cur_order.order_type = "LIMIT" /\ Untouched(cur_order)
    /\ orders = <<>> /\ cash = config.initial_capital
    /\ DOMAIN positions = {"A"}

----------------------------------------------------------------------------
(* The orders of one bar, one after the other *)

(* What a logged fill took from cash (buy) or added to it (sell) *)
FillCost(o) ==
    Mul(Mul(R(o.quantity), o.fill_price), Add(R(1), config.commission))

FillProceeds(o) ==
    Mul(Mul(R(o.quantity), o.fill_price), Sub(R(1), config.commission))

C11_Step ==
    Submitting =>
        /\ ret' = ~(Untouched(Submitted) \/ CashShort(Submitted)
                      \/ ShortDisallowed(Submitted))
        /\ ret' => /\ orders' = Append(orders, AfterCall)
                   /\ cash' = IF Submitted.side = BUY
                              THEN Sub(cash, FillCost(AfterCall))
                              ELSE Add(cash, FillProceeds(AfterCall))

(* C11: within a bar the orders are executed in list order, each checked     *)
(* against the ledger the previous one left: an order is filled exactly when *)
(* the cash and the quantity held at its turn allow it, so a buy too costly  *)
(* for the cash at the start of the bar is filled after a sell of the same   *)
(* list raised cash enough, and rejected when it comes before that sell.     *)
C11_InBarSequential ==
    /\ [](\A i \in 1..Len(orders) :
             orders[i].side = BUY =>
                 Leq(FillCost(orders[i]), CashFromLog(orders, config, i - 1)))
    /\ [][C11_Step]_vars

(* On the first bar a sell was filled and then a buy that the initial        *)
(* capital alone could not pay                                               *)
C11_Witness ==
    /\ submitted = 2 /\ Len(orders) = 2 /\ idx = 0 /\ pc = "orders"
    /\ orders[1].side = SELL /\ orders[2].side = BUY
    /\ Less(config.initial_capital, FillCost(orders[2]))

C12_Step ==
    IF Submitting
    THEN /\ Submitted.timestamp = bar.timestamp
         /\ IF ret'
            THEN /\ orders' = Append(orders, AfterCall)
                 /\ AfterCall.filled
                 /\ AfterCall.fill_price # None
                 /\ AfterCall.fill_timestamp = bar.timestamp
            ELSE /\ orders' = orders
                 /\ ~AfterCall.filled
                 /\ AfterCall.fill_price = None
                 /\ AfterCall.fill_timestamp = NoTime
    ELSE /\ orders' = orders \/ (pc = "idle" /\ orders' = <<>>)
         /\ cash' = cash \/ pc = "idle"
         /\ trades' = trades \/ pc = "idle"
         /\ \A s \in DOMAIN positions' :
                s \in DOMAIN positions
                  /\ positions'[s].quantity = positions[s].quantity

(* C12: an order is appended to the executed-order log exactly when          *)
(* _execute_order returned true for it; every logged order has filled =      *)
(* true, a fill price, and a fill timestamp equal to the timestamp of the    *)
(* bar it was submitted on; the log is in submission order; a rejected order *)
(* keeps filled = false, and no fill happens except in the call that         *)
(* submits the order, so a rejected order is not retried on a later bar.     *)
C12_OrderLog ==
    /\ [](/\ Len(orders) <= submitted
          /\ \A i \in 1..Len(orders) :
                /\ orders[i].filled
                /\ orders[i].fill_price # None
                /\ orders[i].fill_timestamp = orders[i].timestamp
                /\ orders[i].fill_timestamp # NoTime
          /\ \A i, j \in 1..Len(orders) :
                i < j => orders[i].fill_timestamp <= orders[j].fill_timestamp)
    /\ [][C12_Step]_vars

(* Three orders were submitted over two bars: one was rejected and is not in *)
(* the log, which holds one fill of each bar, the last order being a fill    *)
C12_Witness ==
    /\ Len(orders) = 2 /\ submitted = 3
    /\ orders[1].fill_timestamp = 1 /\ orders[2].fill_timestamp = 2
    /\ Len(equity_curve) = 1
    /\ cur_order.filled /\ cur_order = orders[2]

----------------------------------------------------------------------------
(* The equity curve of a run *)

Last(s) == s[Len(s)]

C13_Step ==
    equity_curve' # equity_curve =>
        /\ pc = "orders"
        /\ equity_curve' = Append(equity_curve,
                                  [timestamp |-> bar.timestamp,
                                   equity |-> get_equity(cash, positions),
                                   cash |-> cash])
        /\ cash' = cash /\ positions' = positions /\ orders' = orders
        /\ idx' = idx + 1

(* C13: during a run one EquityPoint is appended per bar, after the orders   *)
(* of the bar, in bar order: the curve changes only by an append, point i    *)
(* carries the timestamp of bar i, timestamps never decrease, at the end the *)
(* length is the number of bars and the result's final_equity is the equity  *)
(* of the last point.                                                        *)
C13_EquityCurve ==
    /\ [](/\ Len(equity_curve) = idx
          /\ \A i \in 1..Len(equity_curve) :
                equity_curve[i].timestamp = data.timestamps[i]
          /\ \A i, j \in 1..Len(equity_curve) :
                i < j => equity_curve[i].timestamp <= equity_curve[j].timestamp
          /\ (pc \in {"bar", "done"} /\ equity_curve # <<>>) =>
                Last(equity_curve).cash = cash
          /\ pc = "done" =>
                /\ Len(equity_curve) = Len(data.timestamps)
                /\ outcome.kind = "result"
                /\ outcome.equity_curve = equity_curve
                /\ equity_curve # <<>> =>
                      outcome.final_equity = Last(equity_curve).equity)
    /\ [][C13_Step]_vars

(* A run over a frame given in the order 2, 1 ended with two points of       *)
(* different equity, after an order was filled                               *)
C13_Witness ==
    /\ pc = "done" /\ frame.timestamps = <<2, 1>>
    /\ Len(equity_curve) = 2 /\ orders # <<>>
    /\ equity_curve[1].equity # equity_curve[2].equity
    /\ outcome.kind = "result"
    /\ outcome.final_equity # config.initial_capital

----------------------------------------------------------------------------
(* run() before data and strategy are bound *)

Bound == data.loaded /\ strategy

FreshLedger ==
    /\ cash = config.initial_capital
    /\ positions = <<>> /\ orders = <<>> /\ trades = <<>>
    /\ equity_curve = <<>>

(* A call that raised without a new frame being passed: run() *)
C14_Step ==
    /\ (pc = "idle" /\ ~Bound) =>
           /\ pc' = "idle" /\ runs' = runs
           /\ ledger' = ledger /\ submitted' = submitted /\ idx' = idx
           /\ outcome'.kind # "result"
    /\ (pc = "idle" /\ pc' # "idle") => Bound

(* C14: run() with no data loaded or no strategy bound raises the            *)
(* configuration error before any bar is processed: no bar is read, no order *)
(* is submitted, no result is returned and ledger, trade log and equity      *)
(* curve stay as they were; once both are bound, in either order, run()      *)
(* starts.                                                                   *)
C14_RunNeedsDataAndStrategy ==
    /\ [](~Bound => /\ pc = "idle" /\ runs = 0 /\ idx = 0 /\ submitted = 0
                    /\ FreshLedger
                    /\ outcome.kind # "result"
                    /\ ENABLED RunFails /\ ~ENABLED RunStart)
    /\ []((Bound /\ pc = "idle") => ENABLED RunStart /\ ~ENABLED RunFails)
    /\ [][C14_Step]_vars

(* run() raised on an engine with a strategy and no data: load_data was      *)
(* never called, so the error is run()'s                                     *)
C14_Witness ==
    /\ outcome = ValueError /\ frame = NoFrame
    /\ strategy /\ ~data.loaded
    /\ pc = "idle" /\ FreshLedger

HasAll(names, columns) == \A i \in 1..Len(names) : In(names[i], columns)

(* C15: run() on a loaded bar sequence of zero bars raises the configuration *)
(* error and returns no result: an engine holding an empty sequence never    *)
(* leaves the idle state and never has a result.                             *)
C15_EmptyDataFails ==
    (data.loaded /\ Len(data.timestamps) = 0) =>
        /\ pc = "idle"
        /\ outcome.kind # "result"

(* C16: load_data rejects, with the configuration error, every frame that    *)
(* lacks one of timestamp, open, high, low, close, volume or symbol: the     *)
(* frame an engine holds has all seven columns, and a call with a frame that *)
(* lacks one raises and leaves the engine without data.                      *)
C16_RequiredFields ==
    /\ data.loaded => HasAll(Columns, data.columns)
    /\ (frame # NoFrame /\ ~HasAll(Columns, frame.columns)) => ~data.loaded

(* The part of C16 that the code keeps: the six checked columns *)
C16_CheckedColumns ==
    /\ data.loaded => HasAll(required, data.columns)
    /\ (frame # NoFrame /\ ~HasAll(required, frame.columns)) => ~data.loaded

----------------------------------------------------------------------------
(* run() called again *)

C17_Step ==
    /\ runs' = runs + 1 =>
           /\ cash' = config.initial_capital
           /\ positions' = <<>> /\ orders' = <<>> /\ trades' = <<>>
           /\ equity_curve' = <<>> /\ timestamp' = NoTime
    /\ (runs > 1 /\ pc # "done" /\ pc' = "done") =>
           /\ outcome.kind = "result"
           /\ outcome'.equity_curve = outcome.equity_curve
           /\ outcome'.trades = outcome.trades
           /\ outcome'.final_equity = outcome.final_equity

(* C17: every run() starts from the fresh ledger (cash = initial_capital, no *)
(* positions, empty order log, trade log and equity curve), and a later      *)
(* run() on the same data, with the strategy returning the same orders,      *)
(* returns the same equity curve, trade log and final equity as the first,   *)
(* whatever state the first run ended in.                                    *)
C17_RerunSameResult == [][C17_Step]_vars

(* The second run returned; the first had ended with a position still open,  *)
(* an order rejected and equity off the initial capital                      *)
C17_Witness ==
    /\ runs = 2 /\ pc = "done"
    /\ "A" \in DOMAIN positions /\ positions["A"].quantity # 0
    /\ submitted > Len(orders)
    /\ outcome.kind = "result"
    /\ outcome.final_equity # config.initial_capital

----------------------------------------------------------------------------
(* Limit orders *)

Slipped(o, base) ==
    Mul(base, IF o.side = BUY THEN Add(R(1), config.slippage)
              ELSE Sub(R(1), config.slippage))

C18_Step ==
    Submitting =>
        /\ Untouched(Submitted) =>
               /\ ~ret'
               /\ cash' = cash /\ positions' = positions
               /\ trades' = trades /\ orders' = orders
               /\ AfterCall = Submitted
        /\ (Submitted.order_type = "LIMIT" /\ ~Untouched(Submitted)) =>
               /\ ret' = ~(CashShort(Submitted) \/ ShortDisallowed(Submitted))
               /\ ret' => AfterCall.fill_price
                             = Slipped(Submitted, Submitted.limit_price)
        /\ (Submitted.order_type = "MARKET" /\ ret') =>
               AfterCall.fill_price = Slipped(Submitted, bar.close)

(* C18: a limit order is left unfilled with nothing changed exactly when it  *)
(* is a buy with limit price below the bar low or a sell with limit price    *)
(* above the bar high; any other limit order is priced at its limit price,   *)
(* with slippage, and then passes or fails the cash and short checks; a      *)
(* market order is priced at the bar close.                                  *)
C18_LimitTouch == [][C18_Step]_vars

(* On one bar a buy at a limit equal to the low and a sell at a limit equal  *)
(* to the high were filled at their limit prices, and a sell with a limit    *)
(* above the high was left unfilled                                          *)
C18_Witness ==
    /\ submitted = 3 /\ Len(orders) = 2 /\ ZeroCost
    /\ orders[1].order_type = "LIMIT" /\ orders[1].side = BUY
    /\ orders[1].limit_price = bar.low /\ orders[1].fill_price = bar.low
    /\ orders[2].order_type = "LIMIT" /\ orders[2].side = SELL
    /\ orders[2].limit_price = bar.high /\ orders[2].fill_price = bar.high
    /\ ~ret /\ cur_order.order_type = "LIMIT" /\ cur_order.side = SELL
    /\ Less(bar.high, cur_order.limit_price)

----------------------------------------------------------------------------
(* Buy and hold *)

(* C19: with zero commission and slippage, after one market buy of q units   *)
(* at close p from the flat ledger and no other order, cash stays at         *)
(* initial_capital - q x p and the equity recorded at every bar from then    *)
(* on, with close c, is initial_capital + q x (c - p).                       *)
C19_BuyAndHold ==
    (ZeroCost /\ submitted = 1 /\ Len(orders) = 1 /\ orders[1].side = BUY) =>
        LET q == R(orders[1].quantity)
            p == orders[1].fill_price
        IN  /\ p = bar.close \/ orders[1].fill_timestamp < bar.timestamp
            /\ cash = Sub(config.initial_capital, Mul(q, p))
            /\ (pc \in {"bar", "done"}) =>
                   /\ Last(equity_curve).cash = cash
                   /\ Last(equity_curve).equity
                        = Add(config.initial_capital, Mul(q, Sub(bar.close, p)))

(* Two units bought on the first bar were held to the end of the second bar, *)
(* which closed at another price                                             *)
C19_Witness ==
    /\ ZeroCost /\ submitted = 1 /\ Len(orders) = 1 /\ orders[1].side = BUY
    /\ orders[1].quantity = 2 /\ orders[1].fill_timestamp = 1
    /\ pc = "done" /\ Len(equity_curve) = 2
    /\ bar.close # orders[1].fill_price
    /\ Last(equity_curve).equity # config.initial_capital

----------------------------------------------------------------------------
(* Drawdown duration *)

(* Period i is below the running maximum of the curve *)
BelowPeak(eq, i) == \E j \in 1..i : eq[i] < eq[j]

(* Length of the run of periods below the running maximum that ends at i *)
RECURSIVE RunEndingAt(_, _)
RunEndingAt(eq, i) ==
    IF i = 0 \/ ~BelowPeak(eq, i) THEN 0 ELSE 1 + RunEndingAt(eq, i - 1)

LongestDrawdownRun(eq) ==
    CHOOSE n \in 0..Len(eq) :
        /\ \E i \in 1..Len(eq) : RunEndingAt(eq, i) = n
        /\ \A i \in 1..Len(eq) : RunEndingAt(eq, i) <= n

(* C20: for every equity curve of at least two points, drawdown_duration is  *)
(* the length of the longest contiguous run of periods whose equity is       *)
(* strictly below the running maximum (3 for 100, 90, 80, 70, 100 and 2 for  *)
(* 100, 90, 80).                                                             *)
C20_DrawdownDuration ==
    (metrics.kind = "metrics" /\ Len(equity) >= 2) =>
        metrics.drawdown_duration = LongestDrawdownRun(equity)

----------------------------------------------------------------------------
(* Consecutive wins and losses *)

(* Length of the run of trades with pnl > 0 that ends at trade i *)
RECURSIVE WinRunEndingAt(_, _)
WinRunEndingAt(pnl, i) ==
    IF i = 0 \/ ~Less(Zero, pnl[i]) THEN 0 ELSE 1 + WinRunEndingAt(pnl, i - 1)

(* Length of the run of trades with pnl < 0 that ends at trade i *)
RECURSIVE LossRunEndingAt(_, _)
LossRunEndingAt(pnl, i) ==
    IF i = 0 \/ ~Less(pnl[i], Zero) THEN 0 ELSE 1 + LossRunEndingAt(pnl, i - 1)

LongestWinRun(pnl) ==
    CHOOSE n \in 0..Len(pnl) :
        /\ \E i \in 1..Len(pnl) : WinRunEndingAt(pnl, i) = n
        /\ \A i \in 1..Len(pnl) : WinRunEndingAt(pnl, i) <= n

LongestLossRun(pnl) ==
    CHOOSE n \in 0..Len(pnl) :
        /\ \E i \in 1..Len(pnl) : LossRunEndingAt(pnl, i) = n
        /\ \A i \in 1..Len(pnl) : LossRunEndingAt(pnl, i) <= n

(* The trade statistics were computed: a curve of at least two points and a *)
(* non-empty trade list                                                     *)
TradesComputed ==
    /\ metrics.kind = "metrics"
    /\ Len(equity) >= 2
    /\ trade_frame.given
    /\ Len(trade_frame.pnl) > 0

(* C21: whenever the trade statistics are computed, max_consecutive_wins is *)
(* the length of the longest run of consecutive trades with pnl > 0 and     *)
(* max_consecutive_losses the length of the longest run of consecutive      *)
(* trades with pnl < 0; a trade with pnl exactly 0 is in neither run.       *)
C21_MaxConsecutive ==
    TradesComputed =>
        /\ metrics.max_consecutive_wins = LongestWinRun(trade_frame.pnl)
        /\ metrics.max_consecutive_losses = LongestLossRun(trade_frame.pnl)

(* The wins alone are counted as C21 says *)
C21_Wins ==
    TradesComputed =>
        metrics.max_consecutive_wins = LongestWinRun(trade_frame.pnl)

----------------------------------------------------------------------------
(* Profit factor *)

AllWins(pnl) == \A i \in 1..Len(pnl) : Less(Zero, pnl[i])

SumOfWins(pnl) == np_sum(positive_of(pnl))

SumOfLosses(pnl) == np_sum(negative_of(pnl))

NoTradeList == ~trade_frame.given \/ Len(trade_frame.pnl) = 0

(* C22: for a curve of at least two points, a non-empty trade list in which *)
(* every trade has pnl > 0 yields profit_factor = +infinity, an empty or    *)
(* absent trade list yields num_trades = 0 and profit_factor = 0, and every *)
(* other trade list yields profit_factor = sum of the winning pnl / |sum of *)
(* the losing pnl|.                                                         *)
C22_ProfitFactor ==
    (metrics.kind = "metrics" /\ Len(equity) >= 2) =>
        IF NoTradeList
        THEN metrics.num_trades = 0 /\ metrics.profit_factor = Zero
        ELSE IF AllWins(trade_frame.pnl)
        THEN metrics.profit_factor = Inf
        ELSE metrics.profit_factor =
                 FDiv(SumOfWins(trade_frame.pnl),
                      FAbs(SumOfLosses(trade_frame.pnl)))

(* The two edge cases and the lists with a losing trade are as C22 says *)
C22_WithLossesOrNone ==
    (/\ metrics.kind = "metrics"
     /\ Len(equity) >= 2
     /\ (NoTradeList \/ AllWins(trade_frame.pnl)
            \/ SumOfLosses(trade_frame.pnl) # Zero)) =>
        IF NoTradeList
        THEN metrics.num_trades = 0 /\ metrics.profit_factor = Zero
        ELSE IF AllWins(trade_frame.pnl)
        THEN metrics.profit_factor = Inf
        ELSE metrics.profit_factor =
                 FDiv(SumOfWins(trade_frame.pnl),
                      FAbs(SumOfLosses(trade_frame.pnl)))

(* The dict of run() reports the profit factor of its trade log as the *)
(* calculator does for the same list                                   *)
C22_RunAgrees ==
    (outcome.kind = "result" /\ outcome.metrics.keys > 0) =>
        LET pnl == [i \in 1..Len(outcome.trades) |-> outcome.trades[i].pnl]
        IN  outcome.metrics.profit_factor =
                IF Len(pnl) = 0 THEN Zero
                ELSE TradeMetrics(DefaultMetrics, pnl).profit_factor

----------------------------------------------------------------------------
(* Flat curves *)

(* The same positive value in all periods *)
Flat(eq) == \A i \in 1..Len(eq) : eq[i] = eq[1] /\ eq[i] > 0

(* C23: for every equity curve of at least two points whose value is the   *)
(* same positive constant in all periods, total_return, volatility,        *)
(* sharpe_ratio, max_drawdown, sortino_ratio, calmar_ratio and             *)
(* drawdown_duration are all 0: no ratio is an infinity or NaN.            *)
C23_FlatCurve ==
    (metrics.kind = "metrics" /\ Len(equity) >= 2 /\ Flat(equity)) =>
        /\ metrics.total_return = Zero
        /\ metrics.volatility = Zero
        /\ metrics.sharpe_ratio = Zero
        /\ metrics.max_drawdown = Zero
        /\ metrics.sortino_ratio = Zero
        /\ metrics.calmar_ratio = Zero
        /\ metrics.drawdown_duration = 0

(* The metrics of a flat curve of three points and a risk-free rate above 0 *)
(* were computed                                                            *)
C23_Witness ==
    /\ metrics.kind = "metrics"
    /\ Len(equity) = 3
    /\ Flat(equity)
    /\ equity[1] = 2
    /\ risk_free_rate # Zero
    /\ metrics.sharpe_ratio = Zero

(* The dict of run() for a flat curve of at least two bars *)
C23_RunFlat ==
    (/\ outcome.kind = "result"
     /\ Len(outcome.equity_curve) >= 2
     /\ \A i \in 1..Len(outcome.equity_curve) :
           outcome.equity_curve[i].equity = outcome.equity_curve[1].equity
     /\ Less(Zero, outcome.equity_curve[1].equity)) =>
        /\ outcome.metrics.total_return = Zero
        /\ outcome.metrics.volatility = Zero
        /\ outcome.metrics.sharpe_ratio = Zero
        /\ outcome.metrics.max_drawdown = Zero

----------------------------------------------------------------------------
(* Guards of the ratios *)

(* Every ratio of the report computed from the curve is a number *)
RatiosAreNumbers(m) ==
    /\ IsNumber(m.total_return)
    /\ IsNumber(m.cagr)
    /\ IsNumber(m.annualized_return)
    /\ IsNumber(m.volatility)
    /\ IsNumber(m.downside_deviation)
    /\ IsNumber(m.max_drawdown)
    /\ IsNumber(m.avg_drawdown)
    /\ IsNumber(m.sharpe_ratio)
    /\ IsNumber(m.sortino_ratio)
    /\ IsNumber(m.calmar_ratio)

(* C24: for every equity curve of at least two points, curves with an       *)
(* equity value of 0 included, every ratio of the metrics report is a       *)
(* number or its defined sentinel 0, never NaN or an infinity.              *)
C24_GuardedRatios ==
    (metrics.kind = "metrics" /\ Len(equity) >= 2) => RatiosAreNumbers(metrics)

(* The guards of zero volatility, zero downside deviation and zero max     *)
(* drawdown: on curves of positive values every ratio is a number          *)
C24_PositiveCurves ==
    (/\ metrics.kind = "metrics"
     /\ Len(equity) >= 2
     /\ \A i \in 1..Len(equity) : equity[i] > 0) => RatiosAreNumbers(metrics)

----------------------------------------------------------------------------
(* Fewer than two equity points *)

(* A step in which run() returns or raises *)
RunEnds == pc # "done" /\ pc' = "done"

C25_Step ==
    (RunEnds /\ Len(data.timestamps) < 2) =>
        /\ outcome'.kind = "result"
        /\ outcome'.metrics = EmptyDict
        /\ Len(outcome'.equity_curve) = Len(data.timestamps)
        /\ Len(data.timestamps) = 1 =>
              /\ outcome'.equity_curve[1].equity = get_equity(cash, positions)
              /\ outcome'.equity_curve[1].timestamp = bar.timestamp
              /\ outcome'.final_equity = outcome'.equity_curve[1].equity

(* C25: a run over fewer than two bars returns a result, not an error; its *)
(* metrics report is empty; after one bar the result carries the one-point *)
(* equity curve and final_equity is the equity of that point.              *)
C25_FewPoints == [][C25_Step]_vars

(* A one-bar run with a filled order has returned *)
C25_Witness ==
    /\ pc = "done"
    /\ Len(data.timestamps) = 1
    /\ Len(orders) = 1
    /\ outcome.kind = "result"
    /\ outcome.metrics = EmptyDict
    /\ outcome.final_equity # config.initial_capital

(* The calculator called with fewer than two points returns the report of *)
(* the defaults, all zero, whatever the trade list                        *)
C25_Calculator ==
    (metrics.kind = "metrics" /\ Len(equity) < 2) => metrics = DefaultMetrics

----------------------------------------------------------------------------
(* Two instances *)

C26_Step ==
    /\ active' = active => other' = other
    /\ active' # active => (Instance' = other /\ other' = Instance)
    /\ (other # NoInstance /\ runs = 2 /\ RunEnds) =>
           /\ outcome.kind = "result"
           /\ outcome' = outcome
           /\ Ledger' = interleaved

----------------------------------------------------------------------------
(* The loop of run() *)

(* Number of calls of the strategy so far in this run *)
StrategyCalls == idx + (IF pc = "orders" THEN 1 ELSE 0)

C27_Step ==
    /\ StrategyCalls' # StrategyCalls =>
           /\ pc = "bar" /\ pc' = "orders"
           /\ StrategyCalls' = StrategyCalls + 1
           /\ bar'.timestamp = data.timestamps[StrategyCalls']
           /\ positions' = update_positions(positions, bar')
           /\ Len(equity_curve') = StrategyCalls
    /\ Len(equity_curve') # Len(equity_curve) =>
           /\ pc = "orders"
           /\ Len(equity_curve') = StrategyCalls
           /\ StrategyCalls' = StrategyCalls
    /\ pc = "done" => ledger' = ledger

(* C27: run() calls the strategy once per bar, in increasing bar index,    *)
(* after marking the positions and before recording the bar's EquityPoint; *)
(* every run that has started ends, having processed every one of the N    *)
(* bars; the ledger does not change after the last bar.                    *)
C27_LoopTerminates ==
    /\ [][C27_Step]_vars
    /\ [](pc = "done" =>
            /\ StrategyCalls = Len(data.timestamps)
            /\ Len(equity_curve) = Len(data.timestamps)
            /\ outcome.kind = "result")
    /\ (pc \in {"bar", "orders"}) ~> (pc = "done")

(* A run over two bars has ended, the strategy having returned an order at *)
(* the second bar                                                          *)
C27_Witness ==
    /\ pc = "done"
    /\ Len(data.timestamps) = 2
    /\ idx = 2
    /\ StrategyCalls = 2
    /\ Len(equity_curve) = 2
    /\ Len(orders) = 1
    /\ orders[1].timestamp = data.timestamps[2]

----------------------------------------------------------------------------
(* The ledger when no position is held *)

AllFlat == \A s \in DOMAIN positions : positions[s].quantity = 0

RealizedTotal ==
    SumOver([s \in DOMAIN positions |-> positions[s].realized_pnl],
            DOMAIN positions)

TradePnlTotal ==
    SumOver([i \in 1..Len(trades) |-> trades[i].pnl], 1..Len(trades))

FlatIdentity ==
    /\ Sub(cash, config.initial_capital) = RealizedTotal
    /\ Sub(cash, config.initial_capital) = TradePnlTotal

(* C28: with zero commission and slippage, whenever every position has     *)
(* quantity 0, cash - initial_capital equals the sum of realized_pnl over  *)
(* the positions and the sum of pnl over the trade log, for every order    *)
(* sequence, round trips that open with a sell included.                   *)
C28_FlatLedgerIdentity == (ZeroCost /\ AllFlat) => FlatIdentity

(* The identity on the ledgers that were never short: when shorting is not *)
(* allowed every round trip opens with a buy                               *)
C28_LongOnly ==
    (ZeroCost /\ AllFlat /\ ~config.allow_shorting) => FlatIdentity

(* A long round trip bought at 2 and sold at 10 *)
C28_LongRoundTrip ==
    /\ ZeroCost /\ AllFlat /\ ~config.allow_shorting
    /\ Len(trades) = 1 /\ trades[1].pnl = R(8)
    /\ cash = R(18)

----------------------------------------------------------------------------
(* Fills that take a position through zero *)

(* The step fills an order that changes the sign of its symbol's quantity *)
Flips ==
    /\ Submitting
    /\ ret'
    /\ Qty(positions, AfterCall.symbol) * Qty(positions', AfterCall.symbol) < 0

FlippedPosition == positions'[AfterCall.symbol]

CostIsFillPrice ==
    /\ FlippedPosition.avg_price = AfterCall.fill_price
    /\ Mul(R(FlippedPosition.quantity),
           Sub(AfterCall.fill_price, FlippedPosition.avg_price)) = Zero

(* C29: after a fill that flips the sign of a position (a sell larger than  *)
(* the long held, a buy larger than the short held) the average cost of the *)
(* new position is the price of that fill, so its unrealized P&L at that    *)
(* price is 0.                                                              *)
C29_FlipResetsCost == [][Flips => CostIsFillPrice]_vars

(* What the code does at a flip: the sell keeps the cost of the long, the  *)
(* buy averages the cost of the short, weighted by its negative quantity,  *)
(* with the fill price                                                     *)
C29_FlipKeepsOldCost ==
    [][Flips =>
         LET p == positions[AfterCall.symbol]
             q == FlippedPosition.quantity
         IN  FlippedPosition.avg_price =
                IF AfterCall.side = SELL THEN p.avg_price
                ELSE Div(Add(Mul(R(p.quantity), p.avg_price),
                             Mul(R(AfterCall.quantity), AfterCall.fill_price)),
                         R(q))]_vars

(* A long of 1 bought at 2 was sold through zero at 10 and is short 1 at a *)
(* cost of 2                                                               *)
C29_FlippedShort ==
    /\ "A" \in DOMAIN positions
    /\ positions["A"].quantity = -1
    /\ positions["A"].avg_price = R(2)
    /\ Len(orders) = 2
    /\ orders[1].side = BUY /\ orders[1].fill_price = R(2)
    /\ orders[2].side = SELL /\ orders[2].quantity = 2
    /\ orders[2].fill_price = R(10)

----------------------------------------------------------------------------
(* Realized P&L and the trade log, symbol by symbol *)

RealizedOf(s) ==
    IF s \in DOMAIN positions THEN positions[s].realized_pnl ELSE Zero

TradesOf(s) == {i \in 1..Len(trades) : trades[i].symbol = s}

TradePnlOf(s) == SumOver([i \in TradesOf(s) |-> trades[i].pnl], TradesOf(s))

C30_Step ==
    \A s \in Symbols :
        RealizedOf(s)' # RealizedOf(s) =>
            /\ Len(trades') = Len(trades) + 1
            /\ SubSeq(trades', 1, Len(trades)) = trades
            /\ trades'[Len(trades')].symbol = s
            /\ RealizedOf(s)' = Add(RealizedOf(s), trades'[Len(trades')].pnl)

(* C30: for every symbol the realized_pnl of its position is the sum of    *)
(* pnl over the Trade records of that symbol, in every state of a run, and *)
(* realized_pnl changes only in the step that appends a Trade.             *)
C30_RealizedMatchesTrades ==
    /\ [](\A s \in Symbols : RealizedOf(s) = TradePnlOf(s))
    /\ [][C30_Step]_vars

(* Two Trades of one symbol with a P&L, and a position in the other symbol *)
(* that has none                                                           *)
C30_Witness ==
    /\ DOMAIN positions = Symbols
    /\ \E s \in Symbols :
          /\ Cardinality(TradesOf(s)) = 2
          /\ \A i \in TradesOf(s) : trades[i].pnl # Zero
          /\ RealizedOf(s) # Zero
          /\ \A t \in Symbols \ {s} : TradesOf(t) = {} /\ RealizedOf(t) = Zero

----------------------------------------------------------------------------
(* Frames with rows of several symbols *)

(* The step reads a row *)
ReadsBar == pc = "bar" /\ pc' = "orders"

OthersUnmarked ==
    \A s \in DOMAIN positions :
        s # bar'.symbol =>
            positions'[s].unrealized_pnl = positions[s].unrealized_pnl

FilledAtOwnBar ==
    (ret' /\ AfterCall.order_type = "MARKET") => AfterCall.symbol = bar.symbol

(* C31: processing a bar of one symbol leaves the unrealized P&L of the    *)
(* positions in every other symbol unchanged, and a market order for a     *)
(* symbol is never filled at the close of a bar of another symbol.         *)
C31_SymbolIsolation ==
    [][/\ ReadsBar => OthersUnmarked
       /\ Submitting => FilledAtOwnBar]_vars

(* What a bar does leave alone in every position, whatever its symbol *)
C31_BarKeepsHoldings ==
    [][ReadsBar =>
         /\ DOMAIN positions' = DOMAIN positions
         /\ \A s \in DOMAIN positions :
               /\ positions'[s].quantity = positions[s].quantity
               /\ positions'[s].avg_price = positions[s].avg_price
               /\ positions'[s].realized_pnl = positions[s].realized_pnl
         /\ cash' = cash]_vars

(* A position in B bought at 2 in the first bar is marked at the close 10  *)
(* of a later bar of A                                                     *)
C31_MarkedAtOtherBar ==
    /\ Len(orders) = 1 /\ orders[1].timestamp = 1
    /\ bar.symbol = "A" /\ bar.close = R(10)
    /\ "B" \in DOMAIN positions
    /\ positions["B"].quantity = 1
    /\ positions["B"].avg_price = R(2)
    /\ positions["B"].unrealized_pnl = R(8)

----------------------------------------------------------------------------
(* The price of a limit fill and the range of the bar *)

(* The step fills a limit order in a configuration without slippage *)
LimitFill ==
    /\ Submitting
    /\ ret'
    /\ AfterCall.order_type = "LIMIT"
    /\ config.slippage = Zero

(* C32: with zero slippage the fill price of every filled limit order lies  *)
(* within the bar's [low, high]: a buy limit above the high, or a sell      *)
(* limit below the low, is not filled at a price the bar never traded at.   *)
C32_LimitFillInRange ==
    [][LimitFill => /\ Leq(bar.low, AfterCall.fill_price)
                    /\ Leq(AfterCall.fill_price, bar.high)]_vars

(* The side of the range the code does check: a buy is not filled below    *)
(* the low, a sell not above the high, and the fill is at the limit price  *)
C32_CheckedSide ==
    [][LimitFill =>
         /\ AfterCall.fill_price = AfterCall.limit_price
         /\ AfterCall.side = BUY => Leq(bar.low, AfterCall.fill_price)
         /\ AfterCall.side = SELL => Leq(AfterCall.fill_price, bar.high)]_vars

(* A buy limit at 10 was filled at 10 in a bar whose high is 3 *)
C32_FilledAboveHigh ==
    /\ pc = "orders"
    /\ ret
    /\ cur_order.order_type = "LIMIT" /\ cur_order.side = BUY
    /\ cur_order.fill_price = R(10)
    /\ bar.high = R(3)
    /\ config.slippage = Zero

----------------------------------------------------------------------------
(* Orders whose quantity is not positive *)

EntryTime(pos, s) == IF s \in DOMAIN pos THEN pos[s].entry_time ELSE NoTime

C33_Step ==
    (Submitting /\ Submitted.quantity <= 0) =>
        /\ ~ret'
        /\ orders' = orders
        /\ cash' = cash
        /\ Qty(positions', Submitted.symbol) = Qty(positions, Submitted.symbol)
        /\ EntryTime(positions', Submitted.symbol)
              = EntryTime(positions, Submitted.symbol)

(* C33: every order of the executed-order log has quantity > 0: an order   *)
(* of quantity 0 or below is never filled and changes neither cash nor the *)
(* position's quantity nor its entry timestamp.                            *)
C33_PositiveQuantity ==
    /\ [](\A i \in 1..Len(orders) : orders[i].quantity > 0)
    /\ [][C33_Step]_vars

(* What the code does with a size it does not check: the order is treated  *)
(* like any other, a negative buy crediting cash and lowering the quantity *)
C33_SizeUnchecked ==
    [][(Submitting /\ Submitted.side = BUY /\ ret') =>
          /\ orders' = Append(orders, AfterCall)
          /\ cash' = Sub(cash, Mul(Mul(R(Submitted.quantity), AfterCall.fill_price),
                                   Add(R(1), config.commission)))
          /\ Qty(positions', Submitted.symbol)
                = Qty(positions, Submitted.symbol) + Submitted.quantity]_vars

(* A buy of -1 was filled with shorting not allowed: the position is short *)
(* and cash is above the initial capital                                   *)
C33_NegativeBuyFilled ==
    /\ ~config.allow_shorting
    /\ Len(orders) = 1
    /\ orders[1].side = BUY /\ orders[1].quantity = -1 /\ orders[1].filled
    /\ Qty(positions, "A") = -1
    /\ Less(config.initial_capital, cash)

----------------------------------------------------------------------------
(* An infinite profit factor *)

HasWin(pnl) == \E i \in 1..Len(pnl) : Less(Zero, pnl[i])

HasLoss(pnl) == \E i \in 1..Len(pnl) : Less(pnl[i], Zero)

(* C34: profit_factor is +infinity only if the trade list has a trade with *)
(* pnl > 0 and none with pnl < 0; a non-empty list without winning and     *)
(* without losing trades (every pnl = 0) yields a finite profit_factor.    *)
C34_InfiniteOnlyWithWins ==
    (metrics.kind = "metrics" /\ metrics.profit_factor = Inf) =>
        /\ trade_frame.given
        /\ HasWin(trade_frame.pnl)
        /\ ~HasLoss(trade_frame.pnl)

(* The part the code's test `total_losses != 0` gives: an infinite profit  *)
(* factor is reported for the non-empty lists without a losing trade, and  *)
(* for no other list                                                       *)
C34_InfiniteWithoutLosses ==
    (metrics.kind = "metrics" /\ Len(equity) >= 2) =>
        (metrics.profit_factor = Inf
            <=> (~NoTradeList /\ ~HasLoss(trade_frame.pnl)))

(* run() reports an infinite profit factor for a trade log whose trades    *)
(* all have pnl 0                                                          *)
C34_RunInfiniteOnZeros ==
    /\ outcome.kind = "result"
    /\ outcome.metrics.keys > 0
    /\ Len(outcome.trades) > 0
    /\ \A i \in 1..Len(outcome.trades) : outcome.trades[i].pnl = Zero
    /\ outcome.metrics.profit_factor = Inf

----------------------------------------------------------------------------
(* Cancelled orders of the paper trader *)

(* cancel_order has returned True for the order, an order that update_price *)
(* passes to the broker: one that was put on the pending list               *)
Cancelled(id) ==
    /\ Returned("cancel_order", id, "True") \in returned
    /\ book[id].order_type # "MARKET"

(* The order is as the step found it and the step did not fill it: a fill  *)
(* is the step that calls the fill callback with the order, and the only   *)
(* step in which the order changes cash or a position                      *)
NotFilledNow(id) ==
    /\ book'[id] = book[id]
    /\ notified'[id] = notified[id]

C35_Step == \A id \in 1..Len(book) : Cancelled(id) => NotFilledNow(id)

(* C35: after cancel_order has returned True for an order it is never      *)
(* filled, its status stays CANCELLED and it changes neither cash nor      *)
(* positions, also when an update_price is awaiting the broker for it.     *)
C35_CancelIsFinal ==
    /\ [](\A id \in 1..Len(book) :
             Cancelled(id) => /\ book[id].status = "CANCELLED"
                              /\ book[id].filled_quantity = 0)
    /\ [][C35_Step]_vars

(* With every call awaited before the next, a cancelled order stays      *)
(* cancelled and leaves the pending list                                 *)
C35_AwaitedCancelIsFinal ==
    /\ [](\A id \in 1..Len(book) :
             Cancelled(id) => /\ book[id].status = "CANCELLED"
                              /\ book[id].filled_quantity = 0
                              /\ ~Contains(pending_orders, id)
                              /\ notified[id] = 0)
    /\ [][C35_Step]_vars

(* A limit order was cancelled while update_price awaited the broker for   *)
(* it, and was filled when the broker returned: update_price then raised   *)
(* ValueError                                                              *)
C35_FilledAfterCancel ==
    \E id \in 1..Len(book) :
        /\ Cancelled(id)
        /\ book[id].order_type = "LIMIT"
        /\ book[id].status = "FILLED"
        /\ notified[id] = 1
        /\ Returned("update_price", id, "ValueError") \in returned

----------------------------------------------------------------------------
(* Fills of one order *)

(* update_price has raised the ValueError of list.remove *)
RemoveFailed == \E r \in returned : r.value = "ValueError"

(* cancel_order was not called *)
NoCancel == \A r \in returned : r.call # "cancel_order"

(* C36: each order of the paper trader is filled at most once: its fill is *)
(* applied to cash and position once, the fill callback is called at most  *)
(* once per order, and removing it from the pending list never fails, for  *)
(* every interleaving of overlapping update_price calls on its symbol.     *)
C36_FilledAtMostOnce ==
    NoCancel => /\ \A id \in 1..Len(book) : notified[id] <= 1
                /\ ~RemoveFailed

(* With every call awaited before the next, an order is filled at most     *)
(* once, by the one broker call that found it triggered, and the callback  *)
(* count is 1 exactly for the FILLED orders                                *)
C36_AwaitedFilledOnce ==
    /\ \A id \in 1..Len(book) :
          /\ notified[id] = IF book[id].status = "FILLED" THEN 1 ELSE 0
          /\ notified[id] <= sent[id]
    /\ ~RemoveFailed

(* Two overlapping update_price calls have both filled one limit buy of 1: *)
(* two callbacks, a position of 2 and cash down by twice the fill, and the *)
(* second call raised ValueError; no order was cancelled                   *)
C36_FilledTwice ==
    /\ Len(book) = 1
    /\ book[1].side = "BUY" /\ book[1].quantity = 1
    /\ notified[1] = 2
    /\ "A" \in DOMAIN account.positions
    /\ account.positions["A"].quantity = 2
    /\ account.cash = Sub(PaperCapital, Mul(R(2), book[1].filled_price))
    /\ Returned("update_price", 1, "ValueError") \in returned
    /\ NoCancel

----------------------------------------------------------------------------
(* Cash of the paper trader *)

(* C37: the cash of the paper trader's account is never negative, for      *)
(* every interleaving of submit_order, update_price and cancel_order: a    *)
(* buy validated against the cash costs, when it fills, no more than the   *)
(* cash then available.                                                    *)
C37_CashNeverNegative == ~Less(account.cash, Zero)

(* The step is a submit_order call *)
Submits == Len(book') = Len(book) + 1

NewOrder == book'[Len(book')]

(* What the validation does give: a buy that is not rejected needs, at the *)
(* price known when it is submitted (0 if none) and with the 1% buffer, no *)
(* more than the cash of that moment; sells only add cash                  *)
C37_ValidatedAtSubmit ==
    [][/\ (Submits /\ NewOrder.side = "BUY" /\ NewOrder.status # "REJECTED") =>
             ~Less(account.cash, RequiredCash(NewOrder, broker))
       /\ Less(account'.cash, account.cash) =>
             \E id \in 1..Len(book) :
                 /\ book[id].side = "BUY"
                 /\ notified'[id] = notified[id] + 1]_vars

(* Awaited calls only: a limit buy of 2 at 2 submitted before any price is *)
(* known was validated against a price of 0 and filled for 4 out of 3      *)
C37_PendingBuyOverdraws ==
    /\ tasks = <<>>
    /\ Len(book) = 1
    /\ book[1].order_type = "LIMIT" /\ book[1].side = "BUY"
    /\ book[1].status = "FILLED" /\ notified[1] = 1
    /\ broker.slippage = Zero
    /\ account.cash = R(-1)

(* Two market buys of 1 at a price of 2 submitted concurrently, each       *)
(* validated against the cash of 3: both filled                            *)
C37_ConcurrentBuysOverdraw ==
    /\ Len(book) = 2
    /\ \A id \in 1..2 : /\ book[id].order_type = "MARKET"
                        /\ book[id].side = "BUY"
                        /\ book[id].quantity = 1
                        /\ book[id].status = "FILLED"
                        /\ book[id].filled_price = R(2)
                        /\ notified[id] = 1
    /\ account.cash = R(-1)

----------------------------------------------------------------------------
(* Positions of the paper trader *)

(* C38: the paper trader never holds a negative position: every position   *)
(* in account.positions has quantity > 0, fully closed positions being     *)
(* removed, for every sequence of market and pending limit or stop sells,  *)
(* a pending sell filled after its position was sold by another order      *)
(* included.                                                               *)
C38_PositionsPositive ==
    \A s \in DOMAIN account.positions : account.positions[s].quantity > 0

(* What the validation does give: a sell that is not rejected is, when it  *)
(* is submitted, for no more than the quantity held; and with every call   *)
(* awaited before the next, every position is positive as long as no sell  *)
(* was put on the pending list                                             *)
C38_AwaitedMarketSells ==
    /\ [][(Submits /\ NewOrder.side = "SELL" /\ NewOrder.status # "REJECTED") =>
             /\ NewOrder.symbol \in DOMAIN account.positions
             /\ NewOrder.quantity <= account.positions[NewOrder.symbol].quantity]_vars
    /\ []((tasks = <<>> /\ \A id \in 1..Len(book) :
                             book[id].side = "SELL" => book[id].order_type = "MARKET")
            => C38_PositionsPositive)

(* Awaited calls only: a limit sell of 1 was accepted while 1 was held,  *)
(* a market sell then closed the position, and the limit sell filled at  *)
(* a later price update: the position is -1                              *)
C38_PendingSellGoesShort ==
    /\ tasks = <<>>
    /\ Len(book) = 3
    /\ book[1].side = "BUY" /\ book[1].status = "FILLED"
    /\ book[2].side = "SELL" /\ book[2].order_type = "LIMIT"
    /\ book[2].status = "FILLED"
    /\ book[3].side = "SELL" /\ book[3].order_type = "MARKET"
    /\ book[3].status = "FILLED"
    /\ \A id \in 1..3 : notified[id] = 1 /\ book[id].quantity = 1
    /\ "A" \in DOMAIN account.positions
    /\ account.positions["A"].quantity = -1

----------------------------------------------------------------------------
(* Orders submit_order rejects *)

(* price known for the symbol, 0 if none *)
CurrentPrice(symbol) ==
    IF get_price(broker, symbol) = None THEN Zero ELSE get_price(broker, symbol)

Held(symbol) ==
    IF symbol \in DOMAIN account.positions
    THEN account.positions[symbol].quantity ELSE 0

(* The order is one the validation has to refuse *)
Invalid(o) ==
    \/ o.quantity <= 0
    \/ /\ o.side = "BUY"
       /\ Less(account.cash,
               Mul(Mul(R(o.quantity), CurrentPrice(o.symbol)), Frac(101, 100)))
    \/ /\ o.side = "SELL"
       /\ (o.symbol \notin DOMAIN account.positions \/ Held(o.symbol) < o.quantity)

C39_Step ==
    /\ Submits =>
          /\ SubSeq(book', 1, Len(book)) = book
          /\ NewOrder.id = Len(book')
          /\ Invalid(NewOrder) =>
                /\ NewOrder.status = "REJECTED"
                /\ Returned("submit_order", NewOrder.id, "REJECTED") \in returned'
                /\ pending_orders' = pending_orders
                /\ tasks' = tasks
                /\ sent'[NewOrder.id] = 0
                /\ account' = account
                /\ notified'[NewOrder.id] = 0
    /\ \A id \in 1..Len(book) :
          (book[id].status = "REJECTED" /\ sent[id] = 0) =>
               /\ book'[id] = book[id]
               /\ sent'[id] = 0
               /\ notified'[id] = 0

(* C39: submit_order rejects, with status REJECTED, every order with       *)
(* quantity <= 0, every buy whose quantity x current price x 1.01 exceeds  *)
(* cash and every sell for more than the position held or without one; a  *)
(* rejected order is in the order book, never enters the pending list, is  *)
(* never sent to the broker, and leaves cash, buying power and positions   *)
(* unchanged.                                                              *)
C39_RejectedOrders ==
    /\ [][C39_Step]_vars
    /\ [](\A id \in 1..Len(book) :
             (book[id].status = "REJECTED" /\ sent[id] = 0) =>
                 /\ ~Contains(pending_orders, id)
                 /\ \A i \in 1..Len(tasks) :
                       tasks[i].order # id /\ ~Contains(tasks[i].rest, id))

(* Orders of each rejected kind are in the book, none of them pending or   *)
(* sent, next to an accepted order that is pending                         *)
C39_Witness ==
    /\ \E id \in 1..Len(book) :
          book[id].status = "REJECTED" /\ book[id].quantity <= 0
    /\ \E id \in 1..Len(book) :
          /\ book[id].status = "REJECTED" /\ book[id].quantity > 0
          /\ book[id].side = "SELL"
    /\ \E id \in 1..Len(book) :
          /\ book[id].status = "REJECTED" /\ book[id].quantity > 0
          /\ book[id].side = "BUY"
    /\ \A id \in 1..Len(book) : book[id].status = "REJECTED" => sent[id] = 0
    /\ pending_orders # <<>>

(* The trigger of a pending order: a limit buy at a price at or below the  *)
(* limit, a limit sell at or above it; a stop buy at or above the stop, a  *)
(* stop sell at or below it                                                *)
Triggered(o, price) ==
    \/ o.order_type = "LIMIT" /\ o.side = "BUY" /\ Leq(price, o.limit_price)
    \/ o.order_type = "LIMIT" /\ o.side = "SELL" /\ Leq(o.limit_price, price)
    \/ o.order_type = "STOP" /\ o.side = "BUY" /\ Leq(o.stop_price, price)
    \/ o.order_type = "STOP" /\ o.side = "SELL" /\ Leq(price, o.stop_price)

(* A call that is running has the order ahead of it or at the broker *)
InTask(ts, id) ==
    \E i \in 1..Len(ts) : ts[i].order = id \/ Contains(ts[i].rest, id)

(* The step is a call (not the broker's return) that changes the price of  *)
(* the symbol                                                              *)
PriceChanges(symbol) ==
    /\ calls' = calls + 1
    /\ get_price(broker', symbol) # get_price(broker, symbol)

(* The step is the broker's return to update_price for the order *)
CheckedAtUpdate(id) ==
    /\ calls' = calls
    /\ Len(tasks) = 1
    /\ tasks[1].call = "update_price"
    /\ tasks[1].order = id

(* The step is a cancel_order call that cancels the order *)
CancelledNow(id) ==
    /\ calls' = calls + 1
    /\ Returned("cancel_order", id, "True") \in returned' \ returned

PendingSubmitted ==
    \A j \in 1..Len(pending_orders) :
        /\ book[pending_orders[j]].status = "SUBMITTED"
        /\ book[pending_orders[j]].order_type # "MARKET"

C40_Step ==
    /\ (Submits /\ ~Invalid(NewOrder)) =>
          IF NewOrder.order_type = "MARKET"
          THEN /\ tasks' = <<Task("submit_order", NewOrder.id, <<>>)>>
               /\ sent'[NewOrder.id] = 1
               /\ pending_orders' = pending_orders
          ELSE /\ NewOrder.status = "SUBMITTED"
               /\ pending_orders' = Append(pending_orders, NewOrder.id)
               /\ tasks' = tasks
               /\ sent'[NewOrder.id] = 0
    /\ \A id \in 1..Len(book) :
          Contains(pending_orders, id) =>
             LET o == book[id]
             IN  IF CheckedAtUpdate(id)
                 THEN IF Triggered(o, get_price(broker, o.symbol))
                      THEN /\ book'[id].status = "FILLED"
                           /\ ~Contains(pending_orders', id)
                           /\ notified'[id] = notified[id] + 1
                      ELSE /\ book'[id] = o
                           /\ Contains(pending_orders', id)
                 ELSE IF CancelledNow(id) THEN TRUE
                 ELSE /\ book'[id] = o
                      /\ Contains(pending_orders', id)
                      /\ notified'[id] = notified[id]
                      /\ PriceChanges(o.symbol) => InTask(tasks', id)
                      /\ InTask(tasks, id) => InTask(tasks', id)
                      /\ (\E s \in Symbols \ {o.symbol} : PriceChanges(s)) =>
                            /\ ~InTask(tasks', id)
                            /\ sent'[id] = sent[id]

(* C40: with calls awaited one at a time, a validated market order is sent *)
(* to the broker within submit_order and is never on the pending list; a   *)
(* validated non-market order is on the pending list with status SUBMITTED *)
(* until a price update for its own symbol meets its trigger (limit buy:   *)
(* price <= limit, limit sell: price >= limit), and at that update it      *)
(* becomes FILLED and leaves the list; every order on the pending list has *)
(* status SUBMITTED, and a price update for another symbol leaves it       *)
(* alone.                                                                  *)
C40_PendingLifecycle ==
    /\ []PendingSubmitted
    /\ [][C40_Step]_vars

(* A limit order was looked at twice by the broker, once without a fill,   *)
(* and is now FILLED and off the list, while another symbol had a price    *)
(* update                                                                  *)
C40_Witness ==
    /\ tasks = <<>>
    /\ \E id \in 1..Len(book) :
          /\ book[id].order_type = "LIMIT"
          /\ book[id].status = "FILLED"
          /\ sent[id] = 2
          /\ notified[id] = 1
          /\ ~Contains(pending_orders, id)
          /\ \E s \in Symbols \ {book[id].symbol} : get_price(broker, s) # None

====
